---- MODULE Spec2Model ----
(***************************************************************************)
(* CSV import categorization pipeline of the expense tracker:              *)
(*   importFromCSV (utils/expenseUtils), POST /api/categorize,             *)
(*   Home.handleFileSelected / addImportedExpenses / handleConfirmImport,  *)
(*   ImportModal, and the localStorage-backed storage service.             *)
(*                                                                         *)
(* Text is modelled as a sequence of one-character strings, so that the    *)
(* quote-aware field splitter, trim, parseFloat and the header test work   *)
(* on characters as the code does.                                         *)
(***************************************************************************)
EXTENDS Integers, Sequences, FiniteSets, TLC

(***************************************************************************)
(* Bounds of the model                                                     *)
(***************************************************************************)
MaxRows == 2
MaxExpenses == 81
MaxFreeLen == 2
MaxStore == 2
MaxArchived == 1

(***************************************************************************)
(* JavaScript values                                                       *)
(***************************************************************************)
\* `undefined` where a string is expected (a sequence no text can equal)
Undefined == <<"<undefined>">>
\* `undefined` where a confidence is expected
NoConfidence == "<undefined>"
\* !v for a string-or-undefined value
Falsy(v) == v = Undefined \/ v = <<>>

Min(a, b) == IF a <= b THEN a ELSE b

(***************************************************************************)
(* String helpers: String.prototype.trim / toLowerCase / includes          *)
(***************************************************************************)
WhiteSpace == {" ", "\t", "\r"}

RECURSIVE TrimLeft(_)
TrimLeft(s) ==
  IF s # <<>> /\ Head(s) \in WhiteSpace THEN TrimLeft(Tail(s)) ELSE s

RECURSIVE TrimRight(_)
TrimRight(s) ==
  IF s # <<>> /\ s[Len(s)] \in WhiteSpace
  THEN TrimRight(SubSeq(s, 1, Len(s) - 1))
  ELSE s

Trim(s) == TrimRight(TrimLeft(s))

UpperCase == <<"A","B","C","D","E","F","G","H","I","J","K","L","M",
               "N","O","P","Q","R","S","T","U","V","W","X","Y","Z">>
LowerCase == <<"a","b","c","d","e","f","g","h","i","j","k","l","m",
               "n","o","p","q","r","s","t","u","v","w","x","y","z">>

LowerChar(c) ==
  IF \E i \in 1..26 : UpperCase[i] = c
  THEN LowerCase[CHOOSE i \in 1..26 : UpperCase[i] = c]
  ELSE c

ToLowerCase(s) == [i \in 1..Len(s) |-> LowerChar(s[i])]

Includes(s, sub) ==
  \E i \in 1..(Len(s) - Len(sub) + 1) : SubSeq(s, i, i + Len(sub) - 1) = sub

(***************************************************************************)
(* parseFloat on a trimmed field: optional sign, digits, optional          *)
(* fraction.  A number is [neg, m, s] meaning (-1)^neg * m / 10^s with     *)
(* trailing fraction zeros removed; NaN is a value of its own.  Exponent   *)
(* notation and "Infinity" are outside the alphabet of the inputs.         *)
(***************************************************************************)
NaN == [nan |-> TRUE]
Digits == <<"0","1","2","3","4","5","6","7","8","9">>
IsDigit(c) == \E i \in 1..10 : Digits[i] = c
DigitVal(c) == (CHOOSE i \in 1..10 : Digits[i] = c) - 1

RECURSIVE DigitRun(_)
\* longest prefix of s made of digits
DigitRun(s) ==
  IF s # <<>> /\ IsDigit(Head(s)) THEN <<Head(s)>> \o DigitRun(Tail(s)) ELSE <<>>

RECURSIVE DigitsVal(_)
DigitsVal(ds) ==
  IF ds = <<>> THEN 0
  ELSE 10 * DigitsVal(SubSeq(ds, 1, Len(ds) - 1)) + DigitVal(ds[Len(ds)])

RECURSIVE StripZeros(_)
StripZeros(ds) ==
  IF ds # <<>> /\ ds[Len(ds)] = "0" THEN StripZeros(SubSeq(ds, 1, Len(ds) - 1)) ELSE ds

parseFloat(str) ==
  LET s0   == TrimLeft(str)
      neg  == s0 # <<>> /\ Head(s0) = "-"
      s1   == IF s0 # <<>> /\ Head(s0) \in {"-", "+"} THEN Tail(s0) ELSE s0
      ip   == DigitRun(s1)
      r1   == SubSeq(s1, Len(ip) + 1, Len(s1))
      fp   == IF r1 # <<>> /\ Head(r1) = "." THEN DigitRun(Tail(r1)) ELSE <<>>
      fz   == StripZeros(fp)
  IN IF ip = <<>> /\ fp = <<>> THEN NaN
     ELSE [nan |-> FALSE, neg |-> neg, m |-> DigitsVal(ip \o fz), s |-> Len(fz)]

isNaN(n) == n.nan
\* n <= 0 for a number that is not NaN
LeqZero(n) == n.neg \/ n.m = 0

(***************************************************************************)
(* new Date(str) / isNaN(getTime()): the ISO forms YYYY, YYYY-MM and       *)
(* YYYY-MM-DD with an existing month and day are valid dates; text that    *)
(* does not start with a digit is an Invalid Date.                         *)
(***************************************************************************)
AllDigits(s) == \A i \in 1..Len(s) : IsDigit(s[i])

DaysInMonth(y, m) ==
  IF m = 2 THEN (IF (y % 4 = 0 /\ y % 100 # 0) \/ y % 400 = 0 THEN 29 ELSE 28)
  ELSE IF m \in {4, 6, 9, 11} THEN 30 ELSE 31

IsValidDate(s) ==
  \/ Len(s) = 4 /\ AllDigits(s)
  \/ /\ Len(s) = 7
     /\ AllDigits(SubSeq(s, 1, 4)) /\ s[5] = "-" /\ AllDigits(SubSeq(s, 6, 7))
     /\ DigitsVal(SubSeq(s, 6, 7)) \in 1..12
  \/ /\ Len(s) = 10
     /\ AllDigits(SubSeq(s, 1, 4)) /\ s[5] = "-" /\ AllDigits(SubSeq(s, 6, 7))
     /\ s[8] = "-" /\ AllDigits(SubSeq(s, 9, 10))
     /\ DigitsVal(SubSeq(s, 6, 7)) \in 1..12
     /\ DigitsVal(SubSeq(s, 9, 10)) \in
          1..DaysInMonth(DigitsVal(SubSeq(s, 1, 4)), DigitsVal(SubSeq(s, 6, 7)))

(***************************************************************************)
(* Category names (types/expense DEFAULT_CATEGORY_CONFIGS) as text         *)
(***************************************************************************)
Food == <<"F","o","o","d">>
Transportation == <<"T","r","a","n","s","p","o","r","t","a","t","i","o","n">>
Entertainment == <<"E","n","t","e","r","t","a","i","n","m","e","n","t">>
Shopping == <<"S","h","o","p","p","i","n","g">>
Bills == <<"B","i","l","l","s">>
Other == <<"O","t","h","e","r">>

DEFAULT_CATEGORIES == <<Food, Transportation, Entertainment, Shopping, Bills, Other>>

Range(f) == {f[i] : i \in DOMAIN f}

(***************************************************************************)
(* importFromCSV: the quote-aware field splitter                           *)
(***************************************************************************)
RECURSIVE SplitLoop(_, _, _, _, _)
\* the for-loop over the characters of `line`, at position i
SplitLoop(line, i, fields, currentField, inQuotes) ==
  IF i > Len(line) THEN Append(fields, Trim(currentField))
  ELSE
    LET char     == line[i]
        hasNext  == i + 1 <= Len(line)
    IN IF char = "\""
       THEN IF inQuotes /\ hasNext /\ line[i + 1] = "\""
            THEN SplitLoop(line, i + 2, fields, Append(currentField, "\""), inQuotes)
            ELSE SplitLoop(line, i + 1, fields, currentField, ~inQuotes)
       ELSE IF char = "," /\ ~inQuotes
            THEN SplitLoop(line, i + 1, Append(fields, Trim(currentField)), <<>>, inQuotes)
            ELSE SplitLoop(line, i + 1, fields, Append(currentField, char), inQuotes)

SplitFields(line) == SplitLoop(line, 1, <<>>, <<>>, FALSE)

(***************************************************************************)
(* importFromCSV: one data line.  Returns [skip |-> TRUE] for a row the    *)
(* loop `continue`s on, else the pushed expense.                           *)
(***************************************************************************)
validCategories == <<Food, Transportation, Entertainment, Shopping, Bills, Other>>

ParseRow(line, hasCategory) ==
  LET fields == SplitFields(line)
      four   == hasCategory /\ Len(fields) >= 4
      date   == fields[1]
      category == IF four THEN fields[2] ELSE Undefined
      amount == IF four THEN fields[3] ELSE fields[2]
      description == IF four THEN fields[4] ELSE fields[3]
      parsedAmount == parseFloat(amount)
      validCategory ==
        IF ~Falsy(category) /\ category \in Range(validCategories)
        THEN category ELSE Undefined
  IN IF Len(fields) < 3 THEN [skip |-> TRUE]
     ELSE IF isNaN(parsedAmount) \/ LeqZero(parsedAmount) THEN [skip |-> TRUE]
     ELSE IF ~IsValidDate(date) THEN [skip |-> TRUE]
     ELSE [skip |-> FALSE,
           exp  |-> [date |-> date, amount |-> parsedAmount,
                     description |-> description, category |-> validCategory]]

RECURSIVE ParseRows(_, _)
\* the for-of loop over dataLines, pushing in file order
ParseRows(dataLines, hasCategory) ==
  IF dataLines = <<>> THEN <<>>
  ELSE LET r == ParseRow(Head(dataLines), hasCategory)
       IN (IF r.skip THEN <<>> ELSE <<r.exp>>) \o ParseRows(Tail(dataLines), hasCategory)

ErrEmpty == "CSV file is empty or invalid"
ErrNoValid == "No valid expenses found in CSV file"

NonBlank(line) == Trim(line) # <<>>

\* variant: the empty-file test accepts a file of one line
importFromCSV_oneLine(text) ==
  LET lines == SelectSeq(text, NonBlank)
  IN IF Len(lines) < 1 THEN [ok |-> FALSE, error |-> ErrEmpty]
     ELSE LET header == ToLowerCase(lines[1])
              hasCategory == Includes(header, <<"c","a","t","e","g","o","r","y">>)
              expenses == ParseRows(Tail(lines), hasCategory)
          IN IF Len(expenses) = 0 THEN [ok |-> FALSE, error |-> ErrNoValid]
             ELSE [ok |-> TRUE, expenses |-> expenses]

\* text is the file content already split at "\n"
importFromCSV(text) ==
  LET lines == SelectSeq(text, NonBlank)
  IN IF Len(lines) < 2 THEN [ok |-> FALSE, error |-> ErrEmpty]
     ELSE LET header == ToLowerCase(lines[1])
              hasCategory == Includes(header, <<"c","a","t","e","g","o","r","y">>)
              expenses == ParseRows(Tail(lines), hasCategory)
          IN IF Len(expenses) = 0 THEN [ok |-> FALSE, error |-> ErrNoValid]
             ELSE [ok |-> TRUE, expenses |-> expenses]

(***************************************************************************)
(* Input files.  A file is its content split at "\n".                      *)
(***************************************************************************)
Header3 == <<"D","a","t","e",",","A","m","o","u","n","t",",","D","e","s","c">>
Header4 == <<"D","a","t","e",",","C","a","t","e","g","o","r","y",",",
             "A","m","o","u","n","t",",","D","e","s","c">>

Pets == <<"P","e","t","s">>

\* 2025-10-01,45.50,Cafe
RowCafe == <<"2","0","2","5","-","1","0","-","0","1",",","4","5",".","5","0",",","C","a","f","e">>
\* 2025-10-02, 12.99 ,Taxi
RowTaxi == <<"2","0","2","5","-","1","0","-","0","2",","," ","1","2",".","9","9"," ",",","T","a","x","i">>
\* 2025-10-02,Food,12.99,Deli
RowFood == <<"2","0","2","5","-","1","0","-","0","2",",","F","o","o","d",",",
             "1","2",".","9","9",",","D","e","l","i">>
\* 2025-10-03,food,5,Bar        (category in the wrong case)
RowLower == <<"2","0","2","5","-","1","0","-","0","3",",","f","o","o","d",",","5",",","B","a","r">>
\* 2025-10-03,Pets,5,Vet        (a user-defined category name)
RowPets == <<"2","0","2","5","-","1","0","-","0","3",",","P","e","t","s",",","5",",","V","e","t">>
\* 2025-10-03,-5.00,Refund
RowNegative == <<"2","0","2","5","-","1","0","-","0","3",",","-","5",".","0","0",",",
                 "R","e","f","u","n","d">>
\* 2025-10-03,0.00,Zero
RowZero == <<"2","0","2","5","-","1","0","-","0","3",",","0",".","0","0",",","Z","e","r","o">>
\* 2025-10-03,abc,Gift
RowNoAmount == <<"2","0","2","5","-","1","0","-","0","3",",","a","b","c",",","G","i","f","t">>
\* soon,5,Bus
RowBadDate == <<"s","o","o","n",",","5",",","B","u","s">>
\* 2025-10-04,7,                 (empty description)
RowNoDesc == <<"2","0","2","5","-","1","0","-","0","4",",","7",",">>
\* 2025-10-04,7                  (two fields)
RowShort == <<"2","0","2","5","-","1","0","-","0","4",",","7">>
\* 2025-10-05,9,"Tea, ""hot"""   (quoted description with comma and quotes)
RowQuoted == <<"2","0","2","5","-","1","0","-","0","5",",","9",",",
               "\"","T","e","a",","," ","\"","\"","h","o","t","\"","\"","\"">>
BlankLine == <<" ">>

SampleRows == {RowCafe, RowFood, RowLower, RowPets, RowNegative, RowZero,
               RowNoAmount, RowBadDate, RowNoDesc, RowShort, RowQuoted, BlankLine}

SeqsUpTo(S, n) == UNION {[1..k -> S] : k \in 0..n}

\* every file the parser is checked on: no line at all, or a header
\* followed by up to MaxRows sample rows
AllFiles ==
  {<<>>} \cup {<<h>> \o rows : h \in {Header3, Header4}, rows \in SeqsUpTo(SampleRows, MaxRows)}

\* the files the user imports in the pipeline
PipelineFiles ==
  { <<>>,
    <<Header3>>,
    <<Header3, RowNegative>>,
    <<Header3, RowCafe>>,
    <<Header3, RowCafe, RowTaxi>>,
    <<Header3, RowBadDate, RowCafe>>,
    <<Header3, RowNoDesc>>,
    <<Header4, RowFood>>,
    <<Header4, RowFood, RowCafe>>,
    <<Header4, RowPets>> }

(***************************************************************************)
(* The categorization oracle (OpenAI chat completion) and its answers      *)
(***************************************************************************)
BATCH_SIZE == 40

\* one object of the answer array; a missing key reads as undefined
OracleEntries ==
  { [category |-> Food,      confidence |-> "high"],
    [category |-> Shopping,  confidence |-> "medium"],
    [category |-> Bills,     confidence |-> "low"],
    [category |-> <<>>,      confidence |-> "low"],
    [category |-> Food,      confidence |-> "certain"],
    [category |-> Undefined, confidence |-> NoConfidence] }

\* the answer arrays offered for a batch of n transactions: arrays of 0,
\* n-1, n and n+1 entries; up to MaxFreeLen entries are chosen freely, a
\* longer array repeats one entry
OracleArrays(n) ==
  UNION { IF k <= MaxFreeLen
          THEN [1..k -> OracleEntries]
          ELSE { [i \in 1..k |-> e] : e \in OracleEntries }
          : k \in {m \in {0, n - 1, n, n + 1} : m >= 0} }

\* response text as segments: code-fence markers (three backquotes, with or
\* without the word json), stray words, white space
\* and one JSON payload
SegFenceJson == [t |-> "fence-json"]
SegFence     == [t |-> "fence"]
SegWord      == [t |-> "word"]
SegSpace     == [t |-> "space"]
JsonArray(a) == [t |-> "payload", kind |-> "array", entries |-> a]
JsonObject   == [t |-> "payload", kind |-> "object", entries |-> <<>>]
JsonTruncated == [t |-> "payload", kind |-> "truncated", entries |-> <<>>]

\* message.content of a completion for a batch of n transactions
OracleTexts(n) ==
  { <<JsonArray(a)>> : a \in OracleArrays(n) } \cup
  { <<>>, <<JsonObject>>, <<JsonTruncated>>,
    <<JsonArray([i \in 1..n |-> [category |-> Food, confidence |-> "high"]]), SegWord>>,
    <<SegFenceJson, SegSpace, JsonArray([i \in 1..n |-> [category |-> Food, confidence |-> "high"]]),
      SegSpace, SegFence>>,
    <<SegFence, SegSpace, JsonArray([i \in 1..n |-> [category |-> Shopping, confidence |-> "medium"]]),
      SegSpace, SegFence>>,
    <<SegFence, SegWord, SegSpace,
      JsonArray([i \in 1..n |-> [category |-> Food, confidence |-> "high"]]), SegSpace, SegFence>> }

RECURSIVE TrimSegs(_)
TrimSegs(txt) ==
  IF txt # <<>> /\ Head(txt) = SegSpace THEN TrimSegs(Tail(txt))
  ELSE IF txt # <<>> /\ txt[Len(txt)] = SegSpace THEN TrimSegs(SubSeq(txt, 1, Len(txt) - 1))
  ELSE txt

\* POST lines 150-160: strip markdown code blocks if present
CleanResponse(responseText) ==
  LET c0 == TrimSegs(responseText)
      c1 == IF c0 # <<>> /\ Head(c0) = SegFenceJson THEN Tail(c0)
            ELSE IF c0 # <<>> /\ Head(c0) = SegFence THEN Tail(c0)
            ELSE c0
      c2 == IF c1 # <<>> /\ c1[Len(c1)] = SegFence THEN SubSeq(c1, 1, Len(c1) - 1) ELSE c1
  IN TrimSegs(c2)

\* JSON.parse(cleanedResponse) followed by allCategorizations.push(...value):
\* [throws |-> TRUE] when the text is not JSON or the value is not iterable
ParseBatch(responseText) ==
  LET c == CleanResponse(responseText)
  IN IF Len(c) = 1 /\ c[1].t = "payload" /\ c[1].kind = "array"
     THEN [throws |-> FALSE, entries |-> c[1].entries]
     ELSE [throws |-> TRUE, entries |-> <<>>]

NumBatches(n) == (n + BATCH_SIZE - 1) \div BATCH_SIZE
\* batches[batchIdx], batchIdx counted from 0
Batch(exps, batchIdx) ==
  SubSeq(exps, batchIdx * BATCH_SIZE + 1, Min((batchIdx + 1) * BATCH_SIZE, Len(exps)))

\* POST lines 192-196: combine expenses with their categorizations
CombineOne(expense, categorizations, idx) ==
  LET has == idx <= Len(categorizations)
      cat == IF has THEN categorizations[idx].category ELSE Undefined
      conf == IF has THEN categorizations[idx].confidence ELSE NoConfidence
  IN [description |-> expense.description, amount |-> expense.amount, date |-> expense.date,
      category |-> IF Falsy(cat) THEN <<>> ELSE cat,
      confidence |-> IF conf = NoConfidence \/ conf = "" THEN "low" ELSE conf]

Combine(exps, categorizations) ==
  [idx \in 1..Len(exps) |-> CombineOne(exps[idx], categorizations, idx)]

(***************************************************************************)
(* storage: the category registry kept in localStorage                     *)
(***************************************************************************)
DefaultCategories ==
  [i \in 1..Len(DEFAULT_CATEGORIES) |->
     [name |-> DEFAULT_CATEGORIES[i], order |-> i - 1, isArchived |-> FALSE]]

\* The categories key of localStorage is [present, cats, fault]: `present` tells
\* whether the key holds an array, `fault` is "corrupt" when the key holds text
\* JSON.parse throws on, "unavailable" when getItem and setItem themselves
\* throw, and "none" otherwise.
NoCategoriesStored == [present |-> FALSE, cats |-> <<>>, fault |-> "none"]
StorageFaults == {"none", "corrupt", "unavailable"}

\* variant: nothing is returned when reading throws
GetCategories_emptyOnFailure(sc) ==
  IF sc.fault # "none" THEN <<>>
  ELSE IF sc.present THEN sc.cats ELSE DefaultCategories

\* storage.getCategories: the stored array, the defaults on first use, and the
\* defaults again when reading throws (the catch at line 285)
GetCategories(sc) ==
  IF sc.fault = "none" /\ sc.present THEN sc.cats ELSE DefaultCategories

\* storage.saveCategories: setItem replaces the key; its exception is logged only
SaveCategories(sc, categories) ==
  IF sc.fault = "unavailable" THEN sc
  ELSE [present |-> TRUE, cats |-> categories, fault |-> "none"]

\* variant: getCategories saves whatever it returns
AfterGetCategories_always(sc) == SaveCategories(sc, GetCategories(sc))

\* what getCategories leaves in localStorage: it saves the defaults on first use
AfterGetCategories(sc) ==
  IF sc.fault = "none" /\ ~sc.present THEN SaveCategories(sc, DefaultCategories) ELSE sc

RECURSIVE InsertByOrder(_, _)
InsertByOrder(sorted, c) ==
  IF sorted = <<>> THEN <<c>>
  ELSE IF c.order < Head(sorted).order THEN <<c>> \o sorted
  ELSE <<Head(sorted)>> \o InsertByOrder(Tail(sorted), c)

RECURSIVE SortByOrder(_)
\* Array.prototype.sort((a, b) => a.order - b.order), which is stable
SortByOrder(cats) ==
  IF cats = <<>> THEN <<>>
  ELSE InsertByOrder(SortByOrder(SubSeq(cats, 1, Len(cats) - 1)), cats[Len(cats)])

\* variant: the filter keeps every category
NotArchived_all(c) == TRUE

NotArchived(c) == ~c.isArchived
\* storage.getActiveCategories
GetActiveCategories(sc) == SortByOrder(SelectSeq(GetCategories(sc), NotArchived))

(***************************************************************************)
(* State                                                                   *)
(***************************************************************************)
VARIABLES
  storedExpenses,    \* localStorage expense_tracker_expenses
  storedCategories,  \* localStorage categories: [present, cats]
  apiKey,            \* process.env.OPENAI_API_KEY is set
  expenses,          \* Home: useState expenses
  isImporting,       \* Home: useState isImporting
  importModalOpen,   \* Home: useState importModalOpen
  pendingExpenses,   \* Home: useState pendingExpenses
  alertMsg,          \* the last alert() shown
  hfs,               \* handleFileSelected between its awaits
  request,           \* the fetch('/api/categorize') of the import in progress, with its response
  post,              \* the POST handler between its awaits
  completions,       \* what the oracle returned for each batch of that request
  parsed,            \* the file last read by FileReader and importFromCSV's result
  quota,             \* localStorage: how many expense records fit before setItem throws
  manager,           \* CategoryManager: isOpen and its useState values
  download,          \* the lines of the CSV file exportToCSV last handed to the browser
  filters,           \* ExpenseList: useState filters
  filteredExpenses   \* ExpenseList: what filterExpenses(expenses, filters) gave at the last render

vars == <<storedExpenses, storedCategories, apiKey, filters, filteredExpenses, quota, manager, download, expenses, isImporting,
          importModalOpen, pendingExpenses, alertMsg, hfs, request, post, completions,
          parsed>>

NoAlert == [kind |-> "none"]
HfsIdle == [pc |-> "idle", file |-> <<>>, uncategorizedExpenses |-> <<>>,
            needsCategorization |-> <<>>, alreadyCategorized |-> <<>>]
NoRequest == [state |-> "none", expenses |-> <<>>, categories |-> <<>>,
              ok |-> FALSE, categorizedExpenses |-> <<>>]
PostIdle == [pc |-> "idle", activeCategories |-> <<>>, batchIdx |-> 0,
             allCategorizations |-> <<>>]
NothingParsed == [text |-> <<>>, result |-> [ok |-> FALSE, error |-> "none"]]
\* draggedIndex is null when nothing is dragged
NoDrag == -1
ManagerClosed == [isOpen |-> FALSE, activeCategories |-> <<>>, archivedCategories |-> <<>>,
                  draggedIndex |-> NoDrag]
NothingDownloaded == <<>>
All == <<"A","l","l">>
\* ExpenseList 39-44: no filter is active
NoFilters == [category |-> All, startDate |-> <<>>, endDate |-> <<>>, searchTerm |-> <<>>]
\* the list has not been rendered with a changed filter yet
NotRendered == [threw |-> FALSE, list |-> <<>>]

Init ==
  /\ storedExpenses = <<>>
  /\ storedCategories = NoCategoriesStored
  /\ apiKey \in BOOLEAN
  /\ expenses = <<>>
  /\ isImporting = FALSE
  /\ importModalOpen = FALSE
  /\ pendingExpenses = <<>>
  /\ alertMsg = NoAlert
  /\ hfs = HfsIdle
  /\ request = NoRequest
  /\ post = PostIdle
  /\ completions = <<>>
  /\ parsed = NothingParsed
  /\ quota = MaxStore
  /\ manager = ManagerClosed
  /\ download = NothingDownloaded
  /\ filters = NoFilters
  /\ filteredExpenses = NotRendered

(***************************************************************************)
(* Home: addImportedExpenses.  generateId() draws on the clock and on      *)
(* Math.random, so the ids are any values of IdSpace; createdAt is not     *)
(* modelled.  storage.addExpense appends to the stored array, as long as    *)
(* localStorage has room for it.                                           *)
(***************************************************************************)
MaxId == 1
IdSpace == 1..MaxId

NewExpenses(expensesToAdd, ids) ==
  [i \in 1..Len(expensesToAdd) |->
     [id |-> ids[i],
      date |-> expensesToAdd[i].date,
      amount |-> expensesToAdd[i].amount,
      category |-> expensesToAdd[i].category,
      description |-> expensesToAdd[i].description]]

\* storage.saveExpenses: setItem throws once the array no longer fits; the
\* catch logs the error and the key keeps the array it held
SaveExpenses(stored, exps, room) == IF Len(exps) <= room THEN exps ELSE stored

\* variant: the array that is saved holds the new records only
AddExpenses_overwrites(stored, newExpenses, room) ==
  IF newExpenses = <<>> THEN stored ELSE SaveExpenses(stored, newExpenses, room)

RECURSIVE AddExpenses(_, _, _)
\* newExpenses.forEach(expense => storage.addExpense(expense)): each call reads
\* the stored array, pushes one record and saves
AddExpenses(stored, newExpenses, room) ==
  IF newExpenses = <<>> THEN stored
  ELSE AddExpenses(SaveExpenses(stored, Append(stored, Head(newExpenses)), room),
                   Tail(newExpenses), room)

addImportedExpenses(expensesToAdd) ==
  \E ids \in [1..Len(expensesToAdd) -> IdSpace] :
    /\ storedExpenses' = AddExpenses(storedExpenses, NewExpenses(expensesToAdd, ids), quota)
    /\ expenses' = storedExpenses'
    /\ alertMsg' = [kind |-> "imported", n |-> Len(expensesToAdd)]

(***************************************************************************)
(* Home: handleFileSelected                                                *)
(***************************************************************************)
\* variant: no row counts as already categorized
HasCategory_never(exp) == FALSE

HasCategory(exp) == ~Falsy(exp.category)
NoCategory(exp) == Falsy(exp.category)

\* page.tsx 134-141
AllExpenses(alreadyCategorized, needsCategorization, categorizedExpenses) ==
  alreadyCategorized \o
  [idx \in 1..Len(categorizedExpenses) |->
     [date |-> needsCategorization[idx].date,
      amount |-> needsCategorization[idx].amount,
      description |-> needsCategorization[idx].description,
      category |-> categorizedExpenses[idx].category,
      confidence |-> categorizedExpenses[idx].confidence]]

\* variant: the low-confidence test is missing
ReviewCategory_noLow(exp) ==
  IF Falsy(exp.category) THEN Undefined ELSE exp.category

\* page.tsx 148: mark for review if low confidence, empty category or no category
ReviewCategory(exp) ==
  IF exp.confidence = "low" \/ Falsy(exp.category) THEN Undefined ELSE exp.category

\* variant: the rows that came with a category are numbered from 0 again
NeedsReview_indexFromZero(alreadyCategorized, needsCategorization, categorizedExpenses) ==
  [idx \in 1..Len(categorizedExpenses) |->
     [date |-> needsCategorization[idx].date,
      amount |-> needsCategorization[idx].amount,
      description |-> needsCategorization[idx].description,
      category |-> ReviewCategory(categorizedExpenses[idx]),
      confidence |-> categorizedExpenses[idx].confidence,
      index |-> idx - 1]]
  \o
  [idx \in 1..Len(alreadyCategorized) |->
     [date |-> alreadyCategorized[idx].date,
      amount |-> alreadyCategorized[idx].amount,
      description |-> alreadyCategorized[idx].description,
      category |-> alreadyCategorized[idx].category,
      confidence |-> "high",
      index |-> idx - 1]]

\* page.tsx 144-158
NeedsReview(alreadyCategorized, needsCategorization, categorizedExpenses) ==
  [idx \in 1..Len(categorizedExpenses) |->
     [date |-> needsCategorization[idx].date,
      amount |-> needsCategorization[idx].amount,
      description |-> needsCategorization[idx].description,
      category |-> ReviewCategory(categorizedExpenses[idx]),
      confidence |-> categorizedExpenses[idx].confidence,
      index |-> idx - 1]]
  \o
  [idx \in 1..Len(alreadyCategorized) |->
     [date |-> alreadyCategorized[idx].date,
      amount |-> alreadyCategorized[idx].amount,
      description |-> alreadyCategorized[idx].description,
      category |-> alreadyCategorized[idx].category,
      confidence |-> "high",
      index |-> Len(needsCategorization) + idx - 1]]

\* variant: only the rows that came with a category are queued
ExpensesWithIndex_categorizedOnly(uncategorizedExpenses) ==
  LET kept == SelectSeq(uncategorizedExpenses, HasCategory)
  IN [idx \in 1..Len(kept) |->
        [date |-> kept[idx].date,
         amount |-> kept[idx].amount,
         description |-> kept[idx].description,
         category |-> kept[idx].category,
         confidence |-> NoConfidence,
         index |-> idx - 1]]

\* page.tsx 174-177 and 184-187
ExpensesWithIndex(uncategorizedExpenses) ==
  [idx \in 1..Len(uncategorizedExpenses) |->
     [date |-> uncategorizedExpenses[idx].date,
      amount |-> uncategorizedExpenses[idx].amount,
      description |-> uncategorizedExpenses[idx].description,
      category |-> uncategorizedExpenses[idx].category,
      confidence |-> NoConfidence,
      index |-> idx - 1]]

\* the user picks a file: the handler runs up to `await importFromCSV(file)`.
\* The import button is rendered only while not importing and lies under the
\* review modal's overlay while that is open.
handleFileSelected(file) ==
  /\ ~isImporting
  /\ ~importModalOpen
  /\ hfs.pc = "idle"
  /\ Len(storedExpenses) + Len(file) - 1 <= MaxStore
  /\ isImporting' = TRUE
  /\ hfs' = [HfsIdle EXCEPT !.pc = "reading", !.file = file]
  /\ UNCHANGED <<storedExpenses, storedCategories, apiKey, filters, filteredExpenses, quota, manager, download, expenses, importModalOpen,
                 pendingExpenses, alertMsg, request, post, completions, parsed>>

\* reader.onload, then handleFileSelected up to `await fetch(...)` or to its end
FileLoaded ==
  /\ hfs.pc = "reading"
  /\ LET result == importFromCSV(hfs.file)
     IN /\ parsed' = [text |-> hfs.file, result |-> result]
        /\ IF ~result.ok
           THEN \* catch: alert('Failed to import CSV: ...'); finally
                /\ alertMsg' = [kind |-> "importFailed", error |-> result.error]
                /\ isImporting' = FALSE
                /\ hfs' = HfsIdle
                /\ request' = NoRequest
                /\ UNCHANGED <<storedExpenses, storedCategories, expenses>>
           ELSE LET needsCategorization == SelectSeq(result.expenses, NoCategory)
                    alreadyCategorized == SelectSeq(result.expenses, HasCategory)
                IN IF Len(needsCategorization) > 0
                   THEN /\ storedCategories' = AfterGetCategories(storedCategories)
                        /\ request' = [NoRequest EXCEPT
                                         !.state = "sent",
                                         !.expenses = [i \in 1..Len(needsCategorization) |->
                                            [description |-> needsCategorization[i].description,
                                             amount |-> needsCategorization[i].amount,
                                             date |-> needsCategorization[i].date]],
                                         !.categories = GetActiveCategories(storedCategories)]
                        /\ hfs' = [hfs EXCEPT !.pc = "fetching",
                                              !.uncategorizedExpenses = result.expenses,
                                              !.needsCategorization = needsCategorization,
                                              !.alreadyCategorized = alreadyCategorized]
                        /\ UNCHANGED <<storedExpenses, expenses, alertMsg, isImporting>>
                   ELSE /\ addImportedExpenses(alreadyCategorized)
                        /\ isImporting' = FALSE
                        /\ hfs' = HfsIdle
                        /\ request' = NoRequest
                        /\ UNCHANGED storedCategories
  /\ completions' = <<>>
  /\ UNCHANGED <<apiKey, filters, filteredExpenses, quota, manager, download, importModalOpen, pendingExpenses, post>>

\* page.tsx 181-190: fetch rejects (network failure) before the server is reached
FetchFails ==
  /\ hfs.pc = "fetching"
  /\ request.state = "sent"
  /\ post.pc = "idle"
  /\ pendingExpenses' = ExpensesWithIndex(hfs.uncategorizedExpenses)
  /\ importModalOpen' = TRUE
  /\ isImporting' = FALSE
  /\ hfs' = HfsIdle
  /\ request' = [request EXCEPT !.state = "failed"]
  /\ UNCHANGED <<storedExpenses, storedCategories, apiKey, filters, filteredExpenses, quota, manager, download, expenses, alertMsg, post,
                 completions, parsed>>

\* page.tsx 128-180: the response arrived
FetchResolved ==
  /\ hfs.pc = "fetching"
  /\ request.state = "responded"
  /\ IF request.ok
     THEN LET categorizedExpenses == request.categorizedExpenses
              allExpenses == AllExpenses(hfs.alreadyCategorized, hfs.needsCategorization,
                                         categorizedExpenses)
              needsReview == NeedsReview(hfs.alreadyCategorized, hfs.needsCategorization,
                                         categorizedExpenses)
              hasUncategorized == \E i \in 1..Len(needsReview) : Falsy(needsReview[i].category)
          IN IF hasUncategorized
             THEN /\ pendingExpenses' = needsReview
                  /\ importModalOpen' = TRUE
                  /\ UNCHANGED <<storedExpenses, expenses, alertMsg>>
             ELSE /\ addImportedExpenses(allExpenses)
                  /\ UNCHANGED <<pendingExpenses, importModalOpen>>
     ELSE /\ pendingExpenses' = ExpensesWithIndex(hfs.uncategorizedExpenses)
          /\ importModalOpen' = TRUE
          /\ UNCHANGED <<storedExpenses, expenses, alertMsg>>
  /\ isImporting' = FALSE
  /\ hfs' = HfsIdle
  /\ request' = IF importModalOpen' THEN [request EXCEPT !.state = "done"] ELSE NoRequest
  /\ completions' = IF importModalOpen' THEN completions ELSE <<>>
  /\ UNCHANGED <<storedCategories, apiKey, filters, filteredExpenses, quota, manager, download, post, parsed>>

(***************************************************************************)
(* POST /api/categorize                                                    *)
(***************************************************************************)
Respond(ok, categorizedExpenses) ==
  request' = [request EXCEPT !.state = "responded", !.ok = ok,
                             !.categorizedExpenses = categorizedExpenses]

\* POST lines 32-87: up to the first `await openai.chat.completions.create`.
\* The merchant context and the prompt text reach only the oracle.
PostReceive ==
  /\ request.state = "sent"
  /\ post.pc = "idle"
  /\ IF ~apiKey
     THEN /\ Respond(FALSE, <<>>)           \* 500 OpenAI API key not configured
          /\ post' = PostIdle
     ELSE IF Len(request.expenses) = 0
     THEN /\ Respond(FALSE, <<>>)           \* 400 expenses array is required
          /\ post' = PostIdle
     ELSE /\ post' = [pc |-> "loop",
                      activeCategories |->
                        IF Len(request.categories) > 0
                        THEN SortByOrder(SelectSeq(request.categories, NotArchived))
                        ELSE DefaultCategories,
                      batchIdx |-> 0,
                      allCategorizations |-> <<>>]
          /\ UNCHANGED request
  /\ UNCHANGED <<storedExpenses, storedCategories, apiKey, filters, filteredExpenses, quota, manager, download, expenses, isImporting,
                 importModalOpen, pendingExpenses, alertMsg, hfs, completions, parsed>>

\* POST lines 148-211 for one completion: clean, JSON.parse, push; after the
\* last batch combine and respond; any exception is caught at line 205
PostBatch(responseText) ==
  /\ post.pc = "loop"
  /\ completions' = Append(completions, responseText)
  /\ LET r == ParseBatch(responseText)
         all == post.allCategorizations \o r.entries
     IN IF r.throws
        THEN /\ Respond(FALSE, <<>>)        \* 500 Failed to categorize expenses
             /\ post' = PostIdle
        ELSE IF post.batchIdx + 1 < NumBatches(Len(request.expenses))
        THEN /\ post' = [post EXCEPT !.batchIdx = post.batchIdx + 1,
                                     !.allCategorizations = all]
             /\ UNCHANGED request
        ELSE /\ Respond(TRUE, Combine(request.expenses, all))
             /\ post' = PostIdle
  /\ UNCHANGED <<storedExpenses, storedCategories, apiKey, filters, filteredExpenses, quota, manager, download, expenses, isImporting,
                 importModalOpen, pendingExpenses, alertMsg, hfs, parsed>>

\* the oracle answers the pending completion of the current batch
OracleAnswers ==
  /\ post.pc = "loop"
  /\ \E responseText \in OracleTexts(Len(Batch(request.expenses, post.batchIdx))) :
       PostBatch(responseText)

\* the completion of a request the oracle did not answer
Rejected == <<[t |-> "rejected"]>>

\* openai.chat.completions.create rejects: caught at line 205
OracleUnreachable ==
  /\ post.pc = "loop"
  /\ completions' = Append(completions, Rejected)
  /\ Respond(FALSE, <<>>)
  /\ post' = PostIdle
  /\ UNCHANGED <<storedExpenses, storedCategories, apiKey, filters, filteredExpenses, quota, manager, download, expenses, isImporting,
                 importModalOpen, pendingExpenses, alertMsg, hfs, parsed>>

(***************************************************************************)
(* ImportModal and its callbacks in Home                                   *)
(***************************************************************************)
CATEGORIES == <<Food, Transportation, Entertainment, Shopping, Bills, Other>>

\* the options the user picks among: two of CATEGORIES and the blank option
ReviewChoices == {Food, Bills, <<>>}

\* variant: some item, instead of every item, has a category
allCategorized_some(expensesNeedingCategory) ==
  \E i \in 1..Len(expensesNeedingCategory) : ~Falsy(expensesNeedingCategory[i].category)

\* ImportModal line 37
allCategorized(expensesNeedingCategory) ==
  \A i \in 1..Len(expensesNeedingCategory) : ~Falsy(expensesNeedingCategory[i].category)

\* page.tsx 221-225, called from the <select> of the item with that index
handleCategorySelected(index, category) ==
  /\ importModalOpen
  /\ \E i \in 1..Len(pendingExpenses) : pendingExpenses[i].index = index
  /\ pendingExpenses' =
       [i \in 1..Len(pendingExpenses) |->
          IF pendingExpenses[i].index = index
          THEN [pendingExpenses[i] EXCEPT !.category = category]
          ELSE pendingExpenses[i]]
  /\ UNCHANGED <<storedExpenses, storedCategories, apiKey, filters, filteredExpenses, quota, manager, download, expenses, isImporting,
                 importModalOpen, alertMsg, hfs, request, post, completions, parsed>>

\* variant: the confirm button is never disabled
ConfirmEnabled_always == importModalOpen

\* ImportModal 154-158: the button is disabled unless allCategorized
ConfirmEnabled == importModalOpen /\ allCategorized(pendingExpenses)

\* page.tsx 227-232, reached through the modal's confirm button
handleConfirmImport ==
  /\ ConfirmEnabled
  /\ addImportedExpenses(pendingExpenses)
  /\ importModalOpen' = FALSE
  /\ pendingExpenses' = <<>>
  /\ request' = NoRequest
  /\ completions' = <<>>
  /\ UNCHANGED <<storedCategories, apiKey, filters, filteredExpenses, quota, manager, download, isImporting, hfs, post, parsed>>

\* variant: closing the review leaves the rows queued
onClose_keepsPending ==
  /\ importModalOpen
  /\ importModalOpen' = FALSE
  /\ request' = NoRequest
  /\ completions' = <<>>
  /\ UNCHANGED <<storedExpenses, storedCategories, apiKey, filters, filteredExpenses, quota, manager, download,
                 expenses, isImporting, pendingExpenses, alertMsg, hfs, post, parsed>>

\* page.tsx 327-331: Cancel or the close button
onClose ==
  /\ importModalOpen
  /\ importModalOpen' = FALSE
  /\ pendingExpenses' = <<>>
  /\ request' = NoRequest
  /\ completions' = <<>>
  /\ UNCHANGED <<storedExpenses, storedCategories, apiKey, filters, filteredExpenses, quota, manager, download, expenses, isImporting,
                 alertMsg, hfs, post, parsed>>

(***************************************************************************)
(* The import pipeline                                                     *)
(***************************************************************************)
Next ==
  \/ \E file \in PipelineFiles : handleFileSelected(file)
  \/ FileLoaded
  \/ FetchFails
  \/ FetchResolved
  \/ PostReceive
  \/ OracleAnswers
  \/ OracleUnreachable
  \/ \E index \in 0..(MaxRows - 1), category \in ReviewChoices :
       handleCategorySelected(index, category)
  \/ handleConfirmImport
  \/ onClose

Spec == Init /\ [][Next]_vars

(***************************************************************************)
(* The categorizer alone: POST called with N expenses, N up to             *)
(* MaxExpenses, so that requests of one, two and three batches occur       *)
(***************************************************************************)
RECURSIVE Decimal(_)
Decimal(n) == IF n < 10 THEN <<Digits[n + 1]>> ELSE Decimal(n \div 10) \o <<Digits[(n % 10) + 1]>>

\* transaction k of a request: description Tk, amount k, one date
Transaction(k) ==
  [description |-> <<"T">> \o Decimal(k),
   amount |-> [nan |-> FALSE, neg |-> FALSE, m |-> k, s |-> 0],
   date |-> <<"2","0","2","5","-","1","0","-","0","1">>]

InitCategorize ==
  /\ storedExpenses = <<>>
  /\ storedCategories = NoCategoriesStored
  /\ apiKey \in BOOLEAN
  /\ expenses = <<>>
  /\ isImporting = FALSE
  /\ importModalOpen = FALSE
  /\ pendingExpenses = <<>>
  /\ alertMsg = NoAlert
  /\ hfs = HfsIdle
  /\ \E n \in 1..MaxExpenses :
       request = [NoRequest EXCEPT !.state = "sent",
                                   !.expenses = [k \in 1..n |-> Transaction(k)]]
  /\ post = PostIdle
  /\ completions = <<>>
  /\ parsed = NothingParsed
  /\ quota = MaxStore
  /\ manager = ManagerClosed
  /\ download = NothingDownloaded
  /\ filters = NoFilters
  /\ filteredExpenses = NotRendered

NextCategorize == PostReceive \/ OracleAnswers \/ OracleUnreachable

SpecCategorize == InitCategorize /\ [][NextCategorize]_vars

(***************************************************************************)
(* The parser alone, next to the category registry: FileReader delivers    *)
(* any file of AllFiles while the registry is edited                       *)
(***************************************************************************)
MaxCustom == 1
CustomNames == {Pets}

\* importFromCSV: reader.onload for the file being read
ReaderOnLoad ==
  /\ hfs.pc = "reading"
  /\ parsed' = [text |-> hfs.file, result |-> importFromCSV(hfs.file)]
  /\ hfs' = HfsIdle
  /\ UNCHANGED <<storedExpenses, storedCategories, apiKey, filters, filteredExpenses, quota, manager, download, expenses, isImporting,
                 importModalOpen, pendingExpenses, alertMsg, request, post,
                 completions>>

NumArchived(cats) == Cardinality({i \in 1..Len(cats) : cats[i].isArchived})

\* index of the element Array.prototype.find returns, 0 when there is none
FindByName(cats, name) ==
  IF \E i \in 1..Len(cats) : cats[i].name = name
  THEN CHOOSE i \in 1..Len(cats) :
         cats[i].name = name /\ \A j \in 1..(i - 1) : cats[j].name # name
  ELSE 0

\* storage.archiveCategory / storage.restoreCategory
SetArchived(name, flag) ==
  LET cats == GetCategories(storedCategories)
      i == FindByName(cats, name)
  IN storedCategories' =
       IF i = 0 THEN AfterGetCategories(storedCategories)
       ELSE SaveCategories(storedCategories, [cats EXCEPT ![i].isArchived = flag])

archiveCategory(name) ==
  /\ NumArchived(GetCategories(storedCategories)) < MaxArchived
  /\ SetArchived(name, TRUE)
  /\ UNCHANGED <<storedExpenses, apiKey, filters, filteredExpenses, quota, manager, download, expenses, isImporting, importModalOpen,
                 pendingExpenses, alertMsg, hfs, request, post, completions, parsed>>

restoreCategory(name) ==
  /\ SetArchived(name, FALSE)
  /\ UNCHANGED <<storedExpenses, apiKey, filters, filteredExpenses, quota, manager, download, expenses, isImporting, importModalOpen,
                 pendingExpenses, alertMsg, hfs, request, post, completions, parsed>>

MaxOrder(cats) ==
  IF cats = <<>> THEN -1
  ELSE CHOOSE m \in {cats[i].order : i \in 1..Len(cats)} \cup {-1} :
         \A i \in 1..Len(cats) : cats[i].order <= m

\* storage.addCategory
addCategory(name) ==
  /\ LET cats == GetCategories(storedCategories)
     IN /\ Len(cats) < Len(DEFAULT_CATEGORIES) + MaxCustom
        /\ storedCategories' =
             SaveCategories(storedCategories,
                            Append(cats, [name |-> Trim(name), order |-> MaxOrder(cats) + 1,
                                          isArchived |-> FALSE]))
  /\ UNCHANGED <<storedExpenses, apiKey, filters, filteredExpenses, quota, manager, download, expenses, isImporting, importModalOpen,
                 pendingExpenses, alertMsg, hfs, request, post, completions, parsed>>

RegistryNames == Range(DEFAULT_CATEGORIES) \cup CustomNames

InitParse ==
  /\ storedExpenses = <<>>
  /\ storedCategories = NoCategoriesStored
  /\ apiKey = TRUE
  /\ expenses = <<>>
  /\ isImporting = TRUE
  /\ importModalOpen = FALSE
  /\ pendingExpenses = <<>>
  /\ alertMsg = NoAlert
  /\ \E file \in AllFiles : hfs = [HfsIdle EXCEPT !.pc = "reading", !.file = file]
  /\ request = NoRequest
  /\ post = PostIdle
  /\ completions = <<>>
  /\ parsed = NothingParsed
  /\ quota = MaxStore
  /\ manager = ManagerClosed
  /\ download = NothingDownloaded
  /\ filters = NoFilters
  /\ filteredExpenses = NotRendered

NextParse ==
  \/ ReaderOnLoad
  \/ \E name \in RegistryNames : archiveCategory(name)
  \/ \E name \in RegistryNames : restoreCategory(name)
  \/ \E name \in CustomNames : addCategory(name)

SpecParse == InitParse /\ [][NextParse]_vars

(***************************************************************************)
(* CategoryManager: the dialog that edits the registry.  Its handlers call *)
(* the storage service and then loadCategories, which reads the registry   *)
(* back into the component's state.  A drag is one pointer gesture: no     *)
(* other control is used between dragstart and dragend.                    *)
(***************************************************************************)
MaxDragIndex == 1

IsArchived(c) == c.isArchived
\* storage.getArchivedCategories
GetArchivedCategories(sc) == SortByOrder(SelectSeq(GetCategories(sc), IsArchived))

\* loadCategories on the registry sc: what the component's state becomes
LoadCategories(sc, m) ==
  [m EXCEPT !.activeCategories = GetActiveCategories(sc),
            !.archivedCategories = GetArchivedCategories(sc)]

\* storage.updateCategoryName, the categories key
UpdateCategoryName(sc, oldName, newName) ==
  LET cats == GetCategories(sc)
      i == FindByName(cats, oldName)
  IN IF i = 0 THEN AfterGetCategories(sc)
     ELSE SaveCategories(sc, [cats EXCEPT ![i].name = Trim(newName)])

\* storage.updateCategoryName, the expenses key
RenameInExpenses(sc, stored, oldName, newName, room) ==
  IF FindByName(GetCategories(sc), oldName) = 0 THEN stored
  ELSE SaveExpenses(stored,
                    [k \in 1..Len(stored) |->
                       IF stored[k].category = oldName
                       THEN [stored[k] EXCEPT !.category = Trim(newName)]
                       ELSE stored[k]],
                    room)

\* storage.reorderCategories
ReorderCategories(sc, categories) ==
  SaveCategories(sc, [i \in 1..Len(categories) |-> [categories[i] EXCEPT !.order = i - 1]])

NamesOf(cats) == {cats[i].name : i \in 1..Len(cats)}

\* the texts typed into the dialog's two inputs
NewCategoryInputs == {Pets, <<"f","o","o","d"," ">>}
EditInputs == {Food, Pets}
\* the rows whose Edit, Archive and Restore buttons are used
EditedNames == {Food, Bills, Pets}

\* page.tsx 257 and the effect on isOpen: the dialog opens and loads
openCategoryManager ==
  /\ ~manager.isOpen
  /\ storedCategories' = AfterGetCategories(storedCategories)
  /\ manager' = LoadCategories(storedCategories', [manager EXCEPT !.isOpen = TRUE])
  /\ UNCHANGED <<storedExpenses, apiKey, filters, filteredExpenses, quota, download, expenses, isImporting,
                 importModalOpen, pendingExpenses, alertMsg, hfs, request, post,
                 completions, parsed>>

handleClose ==
  /\ manager.isOpen
  /\ manager.draggedIndex = NoDrag
  /\ manager' = [manager EXCEPT !.isOpen = FALSE]
  /\ UNCHANGED <<storedExpenses, storedCategories, apiKey, filters, filteredExpenses, quota, download, expenses,
                 isImporting, importModalOpen, pendingExpenses, alertMsg, hfs, request,
                 post, completions, parsed>>

\* Save in the row of an active category, with a new name typed
handleSaveEdit(oldName, editValue) ==
  /\ manager.isOpen
  /\ manager.draggedIndex = NoDrag
  /\ oldName \in NamesOf(manager.activeCategories)
  /\ Trim(editValue) # <<>> /\ Trim(editValue) # oldName
  /\ storedCategories' = UpdateCategoryName(storedCategories, oldName, Trim(editValue))
  /\ storedExpenses' = RenameInExpenses(storedCategories, storedExpenses, oldName,
                                        Trim(editValue), quota)
  /\ manager' = LoadCategories(storedCategories', manager)
  /\ expenses' = storedExpenses'
  /\ UNCHANGED <<apiKey, filters, filteredExpenses, quota, download, isImporting, importModalOpen, pendingExpenses,
                 alertMsg, hfs, request, post, completions, parsed>>

\* Archive in the row of an active category, the confirm() accepted
handleArchive(name) ==
  /\ manager.isOpen
  /\ manager.draggedIndex = NoDrag
  /\ name \in NamesOf(manager.activeCategories)
  /\ NumArchived(GetCategories(storedCategories)) < MaxArchived
  /\ SetArchived(name, TRUE)
  /\ manager' = LoadCategories(storedCategories', manager)
  /\ expenses' = storedExpenses
  /\ UNCHANGED <<storedExpenses, apiKey, filters, filteredExpenses, quota, download, isImporting, importModalOpen,
                 pendingExpenses, alertMsg, hfs, request, post, completions, parsed>>

\* Restore in the row of an archived category
handleRestore(name) ==
  /\ manager.isOpen
  /\ manager.draggedIndex = NoDrag
  /\ name \in NamesOf(manager.archivedCategories)
  /\ SetArchived(name, FALSE)
  /\ manager' = LoadCategories(storedCategories', manager)
  /\ expenses' = storedExpenses
  /\ UNCHANGED <<storedExpenses, apiKey, filters, filteredExpenses, quota, download, isImporting, importModalOpen,
                 pendingExpenses, alertMsg, hfs, request, post, completions, parsed>>

\* storage.addCategory on the registry sc
AddCategory(sc, name) ==
  LET cats == GetCategories(sc)
  IN SaveCategories(sc, Append(cats, [name |-> Trim(name), order |-> MaxOrder(cats) + 1,
                                      isArchived |-> FALSE]))

\* Add, with a name typed: refused when the name, compared without case,
\* is the name of a category the dialog lists
handleAdd(newCategory) ==
  /\ manager.isOpen
  /\ manager.draggedIndex = NoDrag
  /\ Trim(newCategory) # <<>>
  /\ LET allCategories == manager.activeCategories \o manager.archivedCategories
     IN IF \E i \in 1..Len(allCategories) :
             ToLowerCase(allCategories[i].name) = ToLowerCase(Trim(newCategory))
        THEN /\ alertMsg' = [kind |-> "categoryExists"]
             /\ UNCHANGED <<storedCategories, manager, expenses>>
        ELSE /\ Len(GetCategories(storedCategories)) < Len(DEFAULT_CATEGORIES) + MaxCustom
             /\ storedCategories' = AddCategory(storedCategories, Trim(newCategory))
             /\ manager' = LoadCategories(storedCategories', manager)
             /\ expenses' = storedExpenses
             /\ UNCHANGED alertMsg
  /\ UNCHANGED <<storedExpenses, apiKey, filters, filteredExpenses, quota, download, isImporting, importModalOpen,
                 pendingExpenses, hfs, request, post, completions, parsed>>

handleDragStart(index) ==
  /\ manager.isOpen
  /\ manager.draggedIndex = NoDrag
  /\ index < Len(manager.activeCategories)
  /\ manager' = [manager EXCEPT !.draggedIndex = index]
  /\ UNCHANGED <<storedExpenses, storedCategories, apiKey, filters, filteredExpenses, quota, download, expenses,
                 isImporting, importModalOpen, pendingExpenses, alertMsg, hfs, request,
                 post, completions, parsed>>

\* items.splice(draggedIndex, 1); items.splice(index, 0, draggedItem)
MoveItem(items, from, to) ==
  LET draggedItem == items[from + 1]
      rest == SubSeq(items, 1, from) \o SubSeq(items, from + 2, Len(items))
  IN SubSeq(rest, 1, to) \o <<draggedItem>> \o SubSeq(rest, to + 1, Len(rest))

handleDragOver(index) ==
  /\ manager.isOpen
  /\ manager.draggedIndex # NoDrag
  /\ manager.draggedIndex # index
  /\ index < Len(manager.activeCategories)
  /\ manager' = [manager EXCEPT
                   !.activeCategories = MoveItem(manager.activeCategories,
                                                 manager.draggedIndex, index),
                   !.draggedIndex = index]
  /\ UNCHANGED <<storedExpenses, storedCategories, apiKey, filters, filteredExpenses, quota, download, expenses,
                 isImporting, importModalOpen, pendingExpenses, alertMsg, hfs, request,
                 post, completions, parsed>>

handleDragEnd ==
  /\ manager.isOpen
  /\ manager.draggedIndex # NoDrag
  /\ storedCategories' = ReorderCategories(storedCategories, manager.activeCategories)
  /\ manager' = [manager EXCEPT !.draggedIndex = NoDrag]
  /\ expenses' = storedExpenses
  /\ UNCHANGED <<storedExpenses, apiKey, filters, filteredExpenses, quota, download, isImporting, importModalOpen,
                 pendingExpenses, alertMsg, hfs, request, post, completions, parsed>>

\* one expense entered through the form before the dialog is used
StoredCafe ==
  [id |-> 1, date |-> <<"2","0","2","5","-","1","0","-","0","1">>,
   amount |-> [nan |-> FALSE, neg |-> FALSE, m |-> 455, s |-> 1],
   category |-> Food, description |-> <<"C","a","f","e">>]

InitRegistry ==
  /\ storedExpenses = <<StoredCafe>>
  /\ \E fault \in StorageFaults :
       storedCategories = [NoCategoriesStored EXCEPT !.fault = fault]
  /\ apiKey = TRUE
  /\ expenses = storedExpenses
  /\ isImporting = FALSE
  /\ importModalOpen = FALSE
  /\ pendingExpenses = <<>>
  /\ alertMsg = NoAlert
  /\ hfs = HfsIdle
  /\ request = NoRequest
  /\ post = PostIdle
  /\ completions = <<>>
  /\ parsed = NothingParsed
  /\ quota = MaxStore
  /\ manager = ManagerClosed
  /\ download = NothingDownloaded
  /\ filters = NoFilters
  /\ filteredExpenses = NotRendered

NextRegistry ==
  \/ openCategoryManager
  \/ handleClose
  \/ \E oldName \in EditedNames, editValue \in EditInputs : handleSaveEdit(oldName, editValue)
  \/ \E name \in EditedNames : handleArchive(name)
  \/ \E name \in EditedNames : handleRestore(name)
  \/ \E newCategory \in NewCategoryInputs : handleAdd(newCategory)
  \/ \E index \in 0..MaxDragIndex : handleDragStart(index)
  \/ \E index \in 0..MaxDragIndex : handleDragOver(index)
  \/ handleDragEnd

SpecRegistry == InitRegistry /\ [][NextRegistry]_vars

(***************************************************************************)
(* exportToCSV (utils/expenseUtils) and the way back: the expenses are     *)
(* exported, the downloaded file is imported again                         *)
(***************************************************************************)
MaxDescLen == 4

RECURSIVE EscapeQuotes_none(_)
\* variant: the quotes of the description are not doubled
EscapeQuotes_none(str) ==
  IF str = <<>> THEN <<>> ELSE <<Head(str)>> \o EscapeQuotes_none(Tail(str))

RECURSIVE EscapeQuotes(_)
\* String.prototype.replace(/"/g, '""')
EscapeQuotes(str) ==
  IF str = <<>> THEN <<>>
  ELSE (IF Head(str) = "\"" THEN <<"\"", "\"">> ELSE <<Head(str)>>) \o EscapeQuotes(Tail(str))

RECURSIVE Pow10(_)
Pow10(k) == IF k = 0 THEN 1 ELSE 10 * Pow10(k - 1)

RECURSIVE PadZeros(_, _)
PadZeros(ds, width) == IF Len(ds) >= width THEN ds ELSE PadZeros(<<"0">> \o ds, width)

\* Number.prototype.toString for an amount with a finite decimal expansion
NumberToString(n) ==
  (IF n.neg /\ n.m # 0 THEN <<"-">> ELSE <<>>)
  \o Decimal(n.m \div Pow10(n.s))
  \o (IF n.s = 0 THEN <<>>
      ELSE <<".">> \o PadZeros(Decimal(n.m % Pow10(n.s)), n.s))

RECURSIVE Join(_, _)
\* Array.prototype.join
Join(parts, sep) ==
  IF parts = <<>> THEN <<>>
  ELSE IF Len(parts) = 1 THEN parts[1]
  ELSE parts[1] \o sep \o Join(Tail(parts), sep)

ExportHeaders == <<<<"D","a","t","e">>, <<"C","a","t","e","g","o","r","y">>,
                   <<"A","m","o","u","n","t">>,
                   <<"D","e","s","c","r","i","p","t","i","o","n">>>>

\* one element of `rows`, joined
ExportRow(exp) ==
  Join(<<exp.date, exp.category, NumberToString(exp.amount),
         <<"\"">> \o EscapeQuotes(exp.description) \o <<"\"">>>>, <<",">>)

\* csvContent, as the lines that join('\n') puts together
CsvContent(exps) ==
  <<Join(ExportHeaders, <<",">>)>> \o [k \in 1..Len(exps) |-> ExportRow(exps[k])]

exportToCSV ==
  /\ ~isImporting
  /\ ~importModalOpen
  /\ IF Len(expenses) = 0
     THEN /\ alertMsg' = [kind |-> "nothingToExport"]
          /\ UNCHANGED download
     ELSE /\ download' = CsvContent(expenses)
          /\ UNCHANGED alertMsg
  /\ UNCHANGED <<storedExpenses, storedCategories, apiKey, filters, filteredExpenses, quota, manager, expenses,
                 isImporting, importModalOpen, pendingExpenses, hfs, request, post,
                 completions, parsed>>

\* the characters typed into the description of the expense form
DescChars == {"a", ",", "\"", " "}
\* ExpenseForm stores formData.description.trim() and refuses an empty one
Descriptions == {Trim(t) : t \in SeqsUpTo(DescChars, MaxDescLen)} \ {<<>>}

InitExport ==
  /\ \E d \in Descriptions : storedExpenses = <<[StoredCafe EXCEPT !.description = d]>>
  /\ storedCategories = NoCategoriesStored
  /\ apiKey = TRUE
  /\ expenses = storedExpenses
  /\ isImporting = FALSE
  /\ importModalOpen = FALSE
  /\ pendingExpenses = <<>>
  /\ alertMsg = NoAlert
  /\ hfs = HfsIdle
  /\ request = NoRequest
  /\ post = PostIdle
  /\ completions = <<>>
  /\ parsed = NothingParsed
  /\ quota = MaxStore
  /\ manager = ManagerClosed
  /\ download = NothingDownloaded
  /\ filters = NoFilters
  /\ filteredExpenses = NotRendered

NextExport ==
  \/ exportToCSV
  \/ handleFileSelected(download)
  \/ FileLoaded

SpecExport == InitExport /\ [][NextExport]_vars

(***************************************************************************)
(* Properties of the categorizer (SpecCategorize)                          *)
(***************************************************************************)
\* the oracle answered every completion the handler asked for
Answered ==
  /\ Len(completions) >= 1
  /\ \A b \in 1..Len(completions) : completions[b] # Rejected

EmptyLow(exp) == exp.category = <<>> /\ exp.confidence = "low"

\* the positions, in the request, of the transactions of batch b (from 1)
BatchPositions(b) ==
  ((b - 1) * BATCH_SIZE + 1)..Min(b * BATCH_SIZE, Len(request.expenses))

\* C1: for N > 0 transactions and any oracle answer per batch (empty array,
\* short array, text that is not JSON) the categorizer returns exactly N
\* entries, entry k carrying description, amount and date of transaction k.
C1_ExactlyNEntries ==
  (request.state = "responded" /\ Answered) =>
     /\ request.ok
     /\ Len(request.categorizedExpenses) = Len(request.expenses)
     /\ \A k \in 1..Len(request.expenses) :
          /\ request.categorizedExpenses[k].description = request.expenses[k].description
          /\ request.categorizedExpenses[k].amount = request.expenses[k].amount
          /\ request.categorizedExpenses[k].date = request.expenses[k].date

\* C2: when the answer for one batch is not JSON or not an array, only that
\* batch fails: its transactions get empty category and low confidence, the
\* entries of the other batches are kept, and the categorizer still
\* returns a result.
C2_FailedBatchIsolated ==
  (/\ request.state = "responded"
   /\ Answered
   /\ \E b \in 1..Len(completions) : ParseBatch(completions[b]).throws)
  =>
     /\ request.ok
     /\ Len(completions) = NumBatches(Len(request.expenses))
     /\ \A b \in 1..Len(completions) :
          LET r == ParseBatch(completions[b])
          IN \A k \in BatchPositions(b) :
               IF r.throws
               THEN EmptyLow(request.categorizedExpenses[k])
               ELSE request.categorizedExpenses[k] =
                      CombineOne(request.expenses[k], r.entries, k - (b - 1) * BATCH_SIZE)

\* C3: when the array parsed for a batch has fewer entries than the batch
\* has transactions, the missing trailing transactions of that batch get
\* empty category and low confidence, in every batch, the last or not.
C3_ShortBatchFilled ==
  (request.state = "responded" /\ request.ok) =>
     \A b \in 1..Len(completions) :
       LET L == Len(ParseBatch(completions[b]).entries)
       IN \A k \in BatchPositions(b) :
            (k - (b - 1) * BATCH_SIZE > L) => EmptyLow(request.categorizedExpenses[k])

(***************************************************************************)
(* Properties of the review gate (Spec)                                    *)
(***************************************************************************)
\* the step in which handleFileSelected resumes after the fetch
FetchSettles == hfs.pc = "fetching" /\ hfs'.pc = "idle"

\* the items of the import as they reach the gate, in the order of the
\* pending list: category and confidence of each
GateItems ==
  IF request.state = "responded" /\ request.ok
  THEN [k \in 1..Len(request.categorizedExpenses) |->
          [category |-> request.categorizedExpenses[k].category,
           confidence |-> request.categorizedExpenses[k].confidence]]
       \o
       [k \in 1..Len(hfs.alreadyCategorized) |->
          [category |-> hfs.alreadyCategorized[k].category, confidence |-> "high"]]
  ELSE [k \in 1..Len(hfs.uncategorizedExpenses) |->
          [category |-> hfs.uncategorizedExpenses[k].category,
           confidence |-> NoConfidence]]

EmptyOrLow(item) == Falsy(item.category) \/ item.confidence = "low"

\* C4: an imported item is flagged for review (its category is cleared) iff
\* its category is empty or absent or its confidence is low; a low-confidence
\* item with a suggested category is flagged, a pre-categorized row is not.
C4_FlaggedIffEmptyOrLow ==
  [][ FetchSettles =>
        LET items == GateItems
            must == {k \in 1..Len(items) : EmptyOrLow(items[k])}
        IN /\ importModalOpen' <=> (must # {})
           /\ importModalOpen' =>
                /\ Len(pendingExpenses') = Len(items)
                /\ \A k \in 1..Len(items) :
                     /\ Falsy(pendingExpenses'[k].category) <=> (k \in must)
                     /\ k \notin must => pendingExpenses'[k].category = items[k].category
    ]_vars

C4_Witness ==
  /\ importModalOpen
  /\ request.state = "done" /\ request.ok
  /\ Len(pendingExpenses) = 2
  /\ request.categorizedExpenses[1].category = Bills
  /\ request.categorizedExpenses[1].confidence = "low"
  /\ pendingExpenses[1].index = 0
  /\ pendingExpenses[1].category = Undefined
  /\ pendingExpenses[2].category = Food
  /\ pendingExpenses[2].confidence = "high"

\* C5: an item returned by the categorizer keeps its category without human
\* review iff the category is non-empty and the confidence is exactly high
\* or medium; no other confidence value makes it eligible.
C5_AutoCommitIffHighOrMedium ==
  [][ (FetchSettles /\ request.state = "responded" /\ request.ok) =>
        \A k \in 1..Len(request.categorizedExpenses) :
          LET e == request.categorizedExpenses[k]
              eligible == ~Falsy(e.category) /\ e.confidence \in {"high", "medium"}
          IN IF importModalOpen'
             THEN ~Falsy(pendingExpenses'[k].category) <=> eligible
             ELSE eligible
    ]_vars

\* C6: in every reachable state of the store, after any imports, review
\* edits, confirmations and cancellations, no stored expense has an empty or
\* absent category.
C6_NoEmptyCategoryStored ==
  \A i \in 1..Len(storedExpenses) : ~Falsy(storedExpenses[i].category)

\* the oracle's Bills comes with low confidence only, so a stored Bills was
\* chosen by the user in review
C6_Witness ==
  \E i \in 1..Len(storedExpenses) : storedExpenses[i].category = Bills

\* no review item is without a category
NoItemLacksCategory ==
  {i \in 1..Len(pendingExpenses) :
     pendingExpenses[i].category = Undefined \/ pendingExpenses[i].category = <<>>} = {}

\* C7: confirming a reviewed import succeeds iff every review item has a
\* non-empty category; while an item lacks one, nothing of the import is
\* written to the store, and a confirm writes every item.
C7_FinalizeAllOrNothing ==
  /\ [](ENABLED handleConfirmImport <=> (importModalOpen /\ NoItemLacksCategory))
  /\ [][ /\ (importModalOpen /\ ~NoItemLacksCategory)
              => storedExpenses' = storedExpenses
         /\ (importModalOpen /\ ~importModalOpen' /\ storedExpenses' # storedExpenses)
              => /\ NoItemLacksCategory
                 /\ Len(storedExpenses') = Len(storedExpenses) + Len(pendingExpenses)
                 /\ \A i \in 1..Len(pendingExpenses) :
                      storedExpenses'[Len(storedExpenses) + i].category
                        = pendingExpenses[i].category
      ]_vars

C7_Witness ==
  /\ ~importModalOpen
  /\ alertMsg = [kind |-> "imported", n |-> 2]
  /\ Len(storedExpenses) = 2
  /\ storedExpenses[1].category = Bills
  /\ storedExpenses[2].category = Food
  /\ storedExpenses[1].description = <<"C","a","f","e">>
  /\ storedExpenses[2].description = <<"T","a","x","i">>

(***************************************************************************)
(* Properties of the parser (SpecParse, and Spec for the import around it) *)
(***************************************************************************)
NonBlankLines(text) == SelectSeq(text, NonBlank)
DataLines(text) == Tail(NonBlankLines(text))
HeaderHasCategory(text) ==
  Includes(ToLowerCase(NonBlankLines(text)[1]), <<"c","a","t","e","g","o","r","y">>)

FourColumns(text, line) == HeaderHasCategory(text) /\ Len(SplitFields(line)) >= 4
AmountField(text, line) ==
  IF FourColumns(text, line) THEN SplitFields(line)[3] ELSE SplitFields(line)[2]
DescriptionField(text, line) ==
  IF FourColumns(text, line) THEN SplitFields(line)[4] ELSE SplitFields(line)[3]

\* at least 3 fields, an amount > 0 and a valid date
RowWellFormed(text, line) ==
  /\ Len(SplitFields(line)) >= 3
  /\ ~isNaN(parseFloat(AmountField(text, line)))
  /\ ~LeqZero(parseFloat(AmountField(text, line)))
  /\ IsValidDate(SplitFields(line)[1])

WasRead == parsed # NothingParsed /\ Len(NonBlankLines(parsed.text)) >= 2

\* C8: a data row is in the parser's output iff its amount is a number > 0,
\* its date is valid, its description is non-empty after trimming and it has
\* at least 3 fields; so every surviving candidate has a description.
C8_ValidationExhaustive ==
  WasRead =>
    LET data == DataLines(parsed.text)
        valid == {i \in 1..Len(data) :
                    /\ RowWellFormed(parsed.text, data[i])
                    /\ Trim(DescriptionField(parsed.text, data[i])) # <<>>}
    IN IF parsed.result.ok
       THEN /\ Len(parsed.result.expenses) = Cardinality(valid)
            /\ \A j \in 1..Len(parsed.result.expenses) :
                 parsed.result.expenses[j].description # <<>>
       ELSE valid = {}

\* the step in which FileReader delivers the file
FileIsRead == hfs.pc = "reading" /\ hfs'.pc # "reading"

ActiveNames(sc) == {c.name : c \in Range(GetActiveCategories(sc))}

\* C9: the category of a 4-column row is accepted as pre-categorized iff it
\* equals, case-sensitively, the name of a category that is active in the
\* registry when the file is imported.
C9_CategoryJudgedByRegistry ==
  [][ (FileIsRead /\ Len(NonBlankLines(hfs.file)) >= 2) =>
        LET data == DataLines(hfs.file)
            expected == {i \in 1..Len(data) :
                           /\ RowWellFormed(hfs.file, data[i])
                           /\ FourColumns(hfs.file, data[i])
                           /\ SplitFields(data[i])[2] \in ActiveNames(storedCategories)}
            accepted == IF parsed'.result.ok
                        THEN {j \in 1..Len(parsed'.result.expenses) :
                                ~Falsy(parsed'.result.expenses[j].category)}
                        ELSE {}
        IN Cardinality(accepted) = Cardinality(expected)
    ]_vars

\* the j-th smallest element of a set of numbers
Nth(S, j) == CHOOSE i \in S : Cardinality({x \in S : x <= i}) = j

\* the import stops with this error: nothing is sent to the categorizer,
\* nothing is queued for review, nothing is stored
ImportFails(error) ==
  /\ ~parsed'.result.ok
  /\ parsed'.result.error = error
  /\ alertMsg' = [kind |-> "importFailed", error |-> error]
  /\ request' = NoRequest
  /\ post' = post
  /\ hfs' = HfsIdle
  /\ ~importModalOpen'
  /\ pendingExpenses' = pendingExpenses
  /\ storedExpenses' = storedExpenses

\* C10: parsing fails, and nothing is categorized or committed, when the
\* file has fewer than 2 non-blank lines (error ErrEmpty) or when no row
\* survives validation (error ErrNoValid); otherwise it returns the
\* surviving rows in file order.
C10_ParseFailsOrKeepsOrder ==
  [][ FileIsRead =>
        IF Len(NonBlankLines(hfs.file)) < 2 THEN ImportFails(ErrEmpty)
        ELSE LET data == DataLines(hfs.file)
                 survivors == {i \in 1..Len(data) : RowWellFormed(hfs.file, data[i])}
             IN IF survivors = {} THEN ImportFails(ErrNoValid)
                ELSE /\ parsed'.result.ok
                     /\ Len(parsed'.result.expenses) = Cardinality(survivors)
                     /\ \A j \in 1..Cardinality(survivors) :
                          LET line == data[Nth(survivors, j)]
                          IN /\ parsed'.result.expenses[j].date = SplitFields(line)[1]
                             /\ parsed'.result.expenses[j].description
                                  = DescriptionField(hfs.file, line)
                             /\ parsed'.result.expenses[j].amount
                                  = parseFloat(AmountField(hfs.file, line))
    ]_vars

C10_Witness ==
  /\ parsed.text = <<Header3, RowNegative>>
  /\ alertMsg = [kind |-> "importFailed", error |-> ErrNoValid]
  /\ hfs = HfsIdle
  /\ request = NoRequest
  /\ storedExpenses = <<>>
  /\ ~importModalOpen

(***************************************************************************)
(* Properties of the fallback and of the direct commit (Spec)              *)
(***************************************************************************)
\* handleFileSelected resumes after a fetch that was rejected or answered
\* with a status other than 2xx: the key is missing (500), the oracle did not
\* answer or its answer did not parse (500), or the network failed
CategorizerUnavailable ==
  FetchSettles /\ ~(request.state = "responded" /\ request.ok)

\* C11: when the categorizer is unavailable the import goes on: every parsed
\* row, and so every row without a category, is queued for manual review in
\* file order, nothing is stored and no error is alerted in that step, and
\* while the review is open the store changes only in the step that closes it.
C11_UnavailableFallsBackToReview ==
  [][ /\ CategorizerUnavailable =>
          LET rows == hfs.uncategorizedExpenses
          IN /\ importModalOpen'
             /\ ~isImporting'
             /\ alertMsg' = alertMsg
             /\ storedExpenses' = storedExpenses
             /\ expenses' = expenses
             /\ Len(pendingExpenses') = Len(rows)
             /\ \A i \in 1..Len(rows) :
                  /\ pendingExpenses'[i].index = i - 1
                  /\ pendingExpenses'[i].date = rows[i].date
                  /\ pendingExpenses'[i].amount = rows[i].amount
                  /\ pendingExpenses'[i].description = rows[i].description
                  /\ pendingExpenses'[i].category = rows[i].category
             /\ \E i \in 1..Len(rows) : pendingExpenses'[i].category = Undefined
      /\ (importModalOpen /\ importModalOpen') => storedExpenses' = storedExpenses
    ]_vars

C11_Witness ==
  /\ ~apiKey
  /\ importModalOpen
  /\ request.state = "done" /\ ~request.ok
  /\ parsed.text = <<Header4, RowFood, RowCafe>>
  /\ Len(pendingExpenses) = 2
  /\ pendingExpenses[1].category = Food
  /\ pendingExpenses[2].category = Undefined
  /\ pendingExpenses[2].confidence = NoConfidence
  /\ storedExpenses = <<>>
  /\ alertMsg = NoAlert

\* every row importFromCSV returned carries a category
AllRowsCategorized ==
  /\ parsed'.result.ok
  /\ \A j \in 1..Len(parsed'.result.expenses) :
       /\ parsed'.result.expenses[j].category # Undefined
       /\ parsed'.result.expenses[j].category # <<>>

\* C12: when every parsed row carries a category, no request is sent to the
\* categorizer, the review does not open, and every row is stored in file
\* order in the same step.
C12_PreCategorizedSkipsOracle ==
  [][ (FileIsRead /\ AllRowsCategorized) =>
        LET rows == parsed'.result.expenses
        IN /\ request' = NoRequest
           /\ post' = post
           /\ completions' = <<>>
           /\ hfs' = HfsIdle
           /\ ~isImporting'
           /\ ~importModalOpen'
           /\ pendingExpenses' = pendingExpenses
           /\ Len(storedExpenses') = Len(storedExpenses) + Len(rows)
           /\ \A j \in 1..Len(rows) :
                LET e == storedExpenses'[Len(storedExpenses) + j]
                IN /\ e.date = rows[j].date
                   /\ e.amount = rows[j].amount
                   /\ e.description = rows[j].description
                   /\ e.category = rows[j].category
           /\ alertMsg' = [kind |-> "imported", n |-> Len(rows)]
    ]_vars

C12_Witness ==
  /\ parsed.text = <<Header4, RowFood>>
  /\ alertMsg = [kind |-> "imported", n |-> 1]
  /\ Len(storedExpenses) = 1
  /\ storedExpenses[1].category = Food
  /\ request = NoRequest
  /\ post = PostIdle
  /\ ~importModalOpen

(***************************************************************************)
(* Properties of the batching (SpecCategorize)                             *)
(***************************************************************************)
\* the handler answered a request for which the key is configured and the
\* oracle answered every completion it was asked for
OracleReachable ==
  /\ request.state = "responded"
  /\ apiKey
  /\ \A b \in 1..Len(completions) : completions[b] # Rejected

\* C13: for N transactions the handler asks the oracle for exactly
\* ceil(N / 40) completions, one per batch of up to 40 consecutive
\* transactions, and answers with exactly N entries, entry k carrying
\* transaction k.
C13_CeilBatchesAndNEntries ==
  OracleReachable =>
     LET N == Len(request.expenses)
     IN /\ Len(completions) = (N + 39) \div 40
        /\ request.ok
        /\ Len(request.categorizedExpenses) = N
        /\ \A k \in 1..N :
             /\ request.categorizedExpenses[k].description = request.expenses[k].description
             /\ request.categorizedExpenses[k].amount = request.expenses[k].amount
             /\ request.categorizedExpenses[k].date = request.expenses[k].date

(***************************************************************************)
(* The import pipeline on a browser whose localStorage is nearly full:     *)
(* setItem throws QuotaExceededError as soon as the expense array holds    *)
(* more than `quota` records                                               *)
(***************************************************************************)
InitCommit ==
  /\ storedExpenses = <<>>
  /\ storedCategories = NoCategoriesStored
  /\ apiKey \in BOOLEAN
  /\ expenses = <<>>
  /\ isImporting = FALSE
  /\ importModalOpen = FALSE
  /\ pendingExpenses = <<>>
  /\ alertMsg = NoAlert
  /\ hfs = HfsIdle
  /\ request = NoRequest
  /\ post = PostIdle
  /\ completions = <<>>
  /\ parsed = NothingParsed
  /\ quota \in 0..(MaxStore - 1)
  /\ manager = ManagerClosed
  /\ download = NothingDownloaded
  /\ filters = NoFilters
  /\ filteredExpenses = NotRendered

SpecCommit == InitCommit /\ [][Next]_vars

(***************************************************************************)
(* Properties of the commit (SpecCommit)                                   *)
(***************************************************************************)
\* a step in which addImportedExpenses ran and reported
ImportReported ==
  /\ alertMsg'.kind = "imported"
  /\ alertMsg' # alertMsg \/ storedExpenses' # storedExpenses

\* C14: the number addImportedExpenses reports is the number of records
\* the step added to the stored array, and the records stored before the
\* step are kept, also when localStorage refuses some of the writes.
C14_ReportsWrittenCount ==
  [][ ImportReported =>
        /\ Len(storedExpenses') >= Len(storedExpenses)
        /\ SubSeq(storedExpenses', 1, Len(storedExpenses)) = storedExpenses
        /\ alertMsg'.n = Len(storedExpenses') - Len(storedExpenses)
    ]_vars

(***************************************************************************)
(* Properties of the review state (Spec)                                   *)
(***************************************************************************)
\* the import is awaiting review: the modal shows the queued rows
AwaitingReview == importModalOpen
ReviewEnds == AwaitingReview /\ ~AwaitingReview'

\* the review ends with every queued row written, each with the category
\* it has in the queue, none of them empty
ReviewCommitted ==
  /\ \A i \in 1..Len(pendingExpenses) :
       pendingExpenses[i].category # Undefined /\ pendingExpenses[i].category # <<>>
  /\ Len(storedExpenses') = Len(storedExpenses) + Len(pendingExpenses)
  /\ SubSeq(storedExpenses', 1, Len(storedExpenses)) = storedExpenses
  /\ \A i \in 1..Len(pendingExpenses) :
       LET e == storedExpenses'[Len(storedExpenses) + i]
       IN /\ e.category = pendingExpenses[i].category
          /\ e.date = pendingExpenses[i].date
          /\ e.amount = pendingExpenses[i].amount
          /\ e.description = pendingExpenses[i].description
  /\ pendingExpenses' = <<>>

\* the review ends with the queue discarded and nothing written or reported
ReviewCancelled ==
  /\ storedExpenses' = storedExpenses
  /\ expenses' = expenses
  /\ alertMsg' = alertMsg
  /\ pendingExpenses' = <<>>

\* C15 as stated: the only step that ends the review is the commit of all
\* rows, each with a category.
C15_OnlyExitIsCommit ==
  [][ ReviewEnds => ReviewCommitted ]_vars

\* C15 as the code has it: while the review is open no file is read, no
\* request is sent and nothing is stored; the review ends either by the
\* commit of all rows, each with a category, or by the user's cancel, which
\* discards the queue and writes nothing.
C15_ExitIsCommitOrCancel ==
  [][ /\ (AwaitingReview /\ AwaitingReview') =>
          /\ storedExpenses' = storedExpenses
          /\ hfs' = hfs /\ post' = post /\ isImporting' = isImporting
          /\ Len(pendingExpenses') = Len(pendingExpenses)
      /\ ReviewEnds => (ReviewCommitted \/ ReviewCancelled)
    ]_vars

\* the review of <<Header3, RowCafe>> was cancelled
C15_Witness ==
  /\ parsed.text = <<Header3, RowCafe>>
  /\ parsed.result.ok
  /\ ~importModalOpen
  /\ ~isImporting
  /\ hfs = HfsIdle
  /\ pendingExpenses = <<>>
  /\ storedExpenses = <<>>
  /\ alertMsg = NoAlert

(***************************************************************************)
(* Properties of the category registry (SpecRegistry)                      *)
(***************************************************************************)
\* the step ended with loadCategories: the dialog is open, nothing is being
\* dragged before or after, and the step is not a refused Add
LoadStep ==
  /\ manager'.isOpen
  /\ manager.draggedIndex = NoDrag /\ manager'.draggedIndex = NoDrag
  /\ ~(manager' = manager /\ storedCategories' = storedCategories)

\* C16: whenever the active categories are read from a readable registry,
\* after any add, rename, archive, restore or reorder, the result holds
\* each non-archived category of the registry exactly once, no archived
\* one, in ascending order of the order field.
C16_ActiveIsSortedNonArchived ==
  [][ (LoadStep /\ storedCategories'.fault = "none") =>
        LET reg == storedCategories'.cats
            act == manager'.activeCategories
        IN /\ storedCategories'.present
           /\ \A i, j \in 1..Len(act) : i < j => act[i].order <= act[j].order
           /\ \A i \in 1..Len(act) : ~act[i].isArchived
           /\ \A c \in Range(reg) \cup Range(act) :
                Cardinality({i \in 1..Len(act) : act[i] = c}) =
                  Cardinality({k \in 1..Len(reg) : reg[k] = c /\ ~reg[k].isArchived})
    ]_vars

\* reordered, then one category archived and Pets added or renamed to
C16_Witness ==
  /\ manager.isOpen
  /\ manager.draggedIndex = NoDrag
  /\ storedCategories.fault = "none"
  /\ storedCategories.present
  /\ storedCategories.cats[1].name = Transportation
  /\ \E k \in 1..Len(storedCategories.cats) : storedCategories.cats[k].isArchived
  /\ Pets \in NamesOf(manager.activeCategories)
  /\ Len(manager.activeCategories) = Len(storedCategories.cats) - 1
  /\ Len(manager.archivedCategories) = 1

\* the dialog opens, which reads the registry and does nothing else, while
\* the categories key cannot be read
FailedRead ==
  /\ ~manager.isOpen /\ manager'.isOpen
  /\ storedCategories.fault # "none"

\* C17 as stated: a failed read of the registry yields no category.
C17_EmptyOnReadFailure ==
  [][ FailedRead => manager'.activeCategories = <<>> ]_vars

\* C17 as the code has it: a failed read of the registry (getItem or
\* JSON.parse throws) yields the six default categories, none archived, in
\* the default order, and does not propagate.
C17_DefaultsOnReadFailure ==
  [][ FailedRead =>
        LET act == manager'.activeCategories
        IN /\ Len(act) = 6
           /\ \A i \in 1..Len(act) :
                /\ act[i].name = DEFAULT_CATEGORIES[i]
                /\ act[i].order = i - 1
                /\ ~act[i].isArchived
           /\ manager'.archivedCategories = <<>>
    ]_vars

C17_Witness ==
  /\ manager.isOpen
  /\ storedCategories.fault = "corrupt"
  /\ ~storedCategories.present
  /\ Len(manager.activeCategories) = 6
  /\ manager.activeCategories[1].name = Food

\* the dialog opens: getActiveCategories and getArchivedCategories are
\* called and nothing else touches localStorage
ReadStep == ~manager.isOpen /\ manager'.isOpen

\* C18 as stated: reading the active categories changes neither key.
C18_ReadChangesNothing ==
  [][ ReadStep =>
        /\ storedCategories' = storedCategories
        /\ storedExpenses' = storedExpenses
    ]_vars

\* C18 as the code has it: reading the active categories never changes
\* the expenses key; it leaves the categories key as it is, except that the
\* first read of a readable, still empty key stores the six defaults there.
C18_ReadInitializesOnce ==
  [][ ReadStep =>
        /\ storedExpenses' = storedExpenses
        /\ IF storedCategories.fault = "none" /\ ~storedCategories.present
           THEN /\ storedCategories'.present
                /\ storedCategories'.fault = "none"
                /\ Len(storedCategories'.cats) = 6
                /\ \A i \in 1..6 :
                     /\ storedCategories'.cats[i].name = DEFAULT_CATEGORIES[i]
                     /\ storedCategories'.cats[i].order = i - 1
                     /\ ~storedCategories'.cats[i].isArchived
           ELSE storedCategories' = storedCategories
    ]_vars

\* the first read has stored the defaults
C18_Witness ==
  /\ manager.isOpen
  /\ storedCategories.present
  /\ storedCategories.fault = "none"
  /\ Len(storedCategories.cats) = 6
  /\ \A i \in 1..6 : storedCategories.cats[i].name = DEFAULT_CATEGORIES[i]
  /\ storedExpenses = <<StoredCafe>>
  /\ alertMsg = NoAlert

\* C19: no two categories of the registry have the same name.
C19_NamesUnique ==
  \A i, j \in 1..Len(storedCategories.cats) :
     i # j => storedCategories.cats[i].name # storedCategories.cats[j].name

(***************************************************************************)
(* Properties of export followed by import (SpecExport)                    *)
(***************************************************************************)
\* the downloaded file has been read back
ReadBack == download # NothingDownloaded /\ parsed.text = download

\* C20: the description of an exported expense, wrapped in quotes with
\* each quote doubled, comes back unchanged from the import's field
\* splitter, and so from importFromCSV, whatever commas and quotes it holds.
C20_QuotingRoundTrip ==
  /\ \A k \in 2..Len(download) :
       /\ Len(SplitFields(download[k])) = 4
       /\ SplitFields(download[k])[4] = storedExpenses[k - 1].description
  /\ ReadBack =>
       /\ parsed.result.ok
       /\ Len(parsed.result.expenses) = Len(download) - 1
       /\ \A k \in 1..Len(parsed.result.expenses) :
            parsed.result.expenses[k].description = storedExpenses[k].description

\* a description with a comma and a quote went out and came back
C20_Witness ==
  /\ ReadBack
  /\ Len(storedExpenses) = 2
  /\ storedExpenses[1].description = <<"a", ",", "\"", "a">>
  /\ storedExpenses[2].description = <<"a", ",", "\"", "a">>
  /\ download[2] = ExportRow(storedExpenses[1])

(***************************************************************************)
(* Export followed by re-import with the categorizer behind it: the one    *)
(* stored expense carries a default category, or the user-defined name     *)
(* its category was renamed to in the category manager                     *)
(***************************************************************************)
StoredCategoryNames == {Food, Pets}

\* the registry after the rename that gave the stored expense category c
RegistryFor(c) ==
  IF c = Food THEN NoCategoriesStored
  ELSE UpdateCategoryName(AfterGetCategories(NoCategoriesStored), Food, c)

InitReimport ==
  /\ \E c \in StoredCategoryNames :
       /\ storedExpenses = <<[StoredCafe EXCEPT !.category = c]>>
       /\ storedCategories = RegistryFor(c)
  /\ apiKey \in BOOLEAN
  /\ expenses = storedExpenses
  /\ isImporting = FALSE
  /\ importModalOpen = FALSE
  /\ pendingExpenses = <<>>
  /\ alertMsg = NoAlert
  /\ hfs = HfsIdle
  /\ request = NoRequest
  /\ post = PostIdle
  /\ completions = <<>>
  /\ parsed = NothingParsed
  /\ quota = MaxStore
  /\ manager = ManagerClosed
  /\ download = NothingDownloaded
  /\ filters = NoFilters
  /\ filteredExpenses = NotRendered

NextReimport ==
  \/ exportToCSV
  \/ handleFileSelected(download)
  \/ FileLoaded
  \/ FetchFails
  \/ FetchResolved
  \/ PostReceive
  \/ OracleAnswers
  \/ OracleUnreachable
  \/ \E index \in 0..(MaxRows - 1), category \in ReviewChoices :
       handleCategorySelected(index, category)
  \/ handleConfirmImport
  \/ onClose

SpecReimport == InitReimport /\ [][NextReimport]_vars

(***************************************************************************)
(* Properties of the re-import (SpecReimport)                              *)
(***************************************************************************)
\* the file being read is the export of the expenses now stored
ExportIsReadBack ==
  /\ FileIsRead
  /\ hfs.file = download
  /\ download = CsvContent(storedExpenses)

\* C21: re-importing the file exported from the stored expenses sends no
\* request to the categorizer and opens no review, and stores every row,
\* whether the stored categories are default or user-defined names.
C21_ReimportIsInstant ==
  [][ ExportIsReadBack =>
        /\ request' = NoRequest
        /\ ~importModalOpen'
        /\ hfs' = HfsIdle
        /\ Len(storedExpenses') = 2 * Len(storedExpenses)
    ]_vars

(***************************************************************************)
(* Properties of the stored records (Spec)                                 *)
(***************************************************************************)
\* C22: no two records of the store have the same id, whether they were
\* written by one import or by different ones.
C22_IdsUnique ==
  \A i, j \in 1..Len(storedExpenses) :
     i # j => storedExpenses[i].id # storedExpenses[j].id

(***************************************************************************)
(* filterExpenses (utils/expenseUtils) under ExpenseList: each change of   *)
(* a filter input sets the filters and renders the list again.  parseISO   *)
(* and isWithinInterval belong to date-fns: an interval whose start lies   *)
(* after its end makes isWithinInterval throw RangeError (date-fns 2) or   *)
(* is taken with its ends exchanged (date-fns 3).                          *)
(***************************************************************************)
MaxListed == 2

\* parseISO(s).getTime() for the forms IsValidDate accepts, as a number that
\* orders the days
DateKey(s) ==
  DigitsVal(SubSeq(s, 1, 4)) * 10000
  + (IF Len(s) >= 7 THEN DigitsVal(SubSeq(s, 6, 7)) ELSE 1) * 100
  + (IF Len(s) >= 10 THEN DigitsVal(SubSeq(s, 9, 10)) ELSE 1)

InvertedIntervalOutcomes == {"throws", "exchanges"}

\* filters.startDate && filters.endDate
RangeGiven(f) == f.startDate # <<>> /\ f.endDate # <<>>
\* the interval handed to isWithinInterval has its start after its end
InvertedInterval(f) == RangeGiven(f) /\ DateKey(f.startDate) > DateKey(f.endDate)

\* the callback of expenses.filter, for an interval isWithinInterval accepts
KeepExpense(expense, f) ==
  IF f.category # All /\ expense.category # f.category THEN FALSE
  ELSE IF /\ RangeGiven(f)
          /\ ~(/\ DateKey(expense.date) >= Min(DateKey(f.startDate), DateKey(f.endDate))
               /\ DateKey(expense.date) <= IF DateKey(f.startDate) >= DateKey(f.endDate)
                                           THEN DateKey(f.startDate) ELSE DateKey(f.endDate))
       THEN FALSE
  ELSE IF f.searchTerm # <<>>
       THEN \/ Includes(ToLowerCase(expense.description), ToLowerCase(f.searchTerm))
            \/ Includes(ToLowerCase(expense.category), ToLowerCase(f.searchTerm))
  ELSE TRUE

\* filterExpenses: [threw, list]; the callback reaches isWithinInterval for
\* every expense that passed the category test
filterExpenses(exps, f, onInverted) ==
  IF /\ InvertedInterval(f)
     /\ onInverted = "throws"
     /\ \E i \in 1..Len(exps) : f.category = All \/ exps[i].category = f.category
  THEN [threw |-> TRUE, list |-> <<>>]
  ELSE [threw |-> FALSE, list |-> SelectSeq(exps, LAMBDA e : KeepExpense(e, f))]

\* setFilters({...filters, ...}) and the render that follows
SetFilters(f) ==
  /\ filters' = f
  /\ \E onInverted \in InvertedIntervalOutcomes :
       filteredExpenses' = filterExpenses(expenses, f, onInverted)
  /\ UNCHANGED <<storedExpenses, storedCategories, apiKey, quota, manager, download,
                 expenses, isImporting, importModalOpen, pendingExpenses, alertMsg, hfs,
                 request, post, completions, parsed>>

\* ExpenseList: onChange of the four filter inputs
setSearchTerm(value) ==
  /\ value # filters.searchTerm
  /\ SetFilters([filters EXCEPT !.searchTerm = value])
setCategoryFilter(value) ==
  /\ value # filters.category
  /\ SetFilters([filters EXCEPT !.category = value])
setStartDate(value) ==
  /\ value # filters.startDate
  /\ SetFilters([filters EXCEPT !.startDate = value])
setEndDate(value) ==
  /\ value # filters.endDate
  /\ SetFilters([filters EXCEPT !.endDate = value])

Oct01 == <<"2","0","2","5","-","1","0","-","0","1">>
Oct15 == <<"2","0","2","5","-","1","0","-","1","5">>
Oct31 == <<"2","0","2","5","-","1","0","-","3","1">>
Sep30 == <<"2","0","2","5","-","0","9","-","3","0">>

\* the expenses the list is filled from
ListedExpenses ==
  { [StoredCafe EXCEPT !.date = Oct01],
    [StoredCafe EXCEPT !.date = Sep30, !.description = <<"B","a","r">>],
    [StoredCafe EXCEPT !.date = Oct15, !.category = Bills, !.description = <<"G","a","s">>],
    [StoredCafe EXCEPT !.date = Oct31, !.category = Bills,
                       !.description = <<"F","o","o","d"," ","t","a","x">>] }

\* what is typed or picked in the filter inputs
SearchTerms == {<<>>, <<"F","O","O","D">>, <<"a">>}
CategoryFilters == {All, Food, Bills}
FilterDates == {<<>>, Oct01, Oct31}

InitFilter ==
  /\ storedExpenses \in SeqsUpTo(ListedExpenses, MaxListed)
  /\ storedCategories = NoCategoriesStored
  /\ apiKey = TRUE
  /\ expenses = storedExpenses
  /\ isImporting = FALSE
  /\ importModalOpen = FALSE
  /\ pendingExpenses = <<>>
  /\ alertMsg = NoAlert
  /\ hfs = HfsIdle
  /\ request = NoRequest
  /\ post = PostIdle
  /\ completions = <<>>
  /\ parsed = NothingParsed
  /\ quota = MaxStore
  /\ manager = ManagerClosed
  /\ download = NothingDownloaded
  /\ filters = NoFilters
  /\ filteredExpenses = [threw |-> FALSE, list |-> expenses]

NextFilter ==
  \/ \E value \in SearchTerms : setSearchTerm(value)
  \/ \E value \in CategoryFilters : setCategoryFilter(value)
  \/ \E value \in FilterDates : setStartDate(value)
  \/ \E value \in FilterDates : setEndDate(value)

SpecFilter == InitFilter /\ [][NextFilter]_vars

(***************************************************************************)
(* Properties of the filter (SpecFilter)                                   *)
(***************************************************************************)
\* the expense satisfies every active filter
SatisfiesFilters(expense, f) ==
  /\ f.category = All \/ expense.category = f.category
  /\ (f.startDate # <<>> /\ f.endDate # <<>>) =>
       /\ DateKey(f.startDate) <= DateKey(expense.date)
       /\ DateKey(expense.date) <= DateKey(f.endDate)
  /\ f.searchTerm # <<>> =>
       \/ Includes(ToLowerCase(expense.description), ToLowerCase(f.searchTerm))
       \/ Includes(ToLowerCase(expense.category), ToLowerCase(f.searchTerm))

\* C23: filterExpenses returns exactly the expenses that satisfy all active
\* filters together, in input order; with no filter active, all of them.
C23_FilterExact ==
  /\ ~filteredExpenses.threw
  /\ filteredExpenses.list = SelectSeq(expenses, LAMBDA e : SatisfiesFilters(e, filters))

(***************************************************************************)
(* Properties of the merge of the batches (SpecCategorize)                 *)
(***************************************************************************)
\* entry i of the array parsed for batch b, absent when the array is shorter
EntryOfBatch(b, i) ==
  LET entries == ParseBatch(completions[b]).entries
  IN IF i <= Len(entries) THEN entries[i]
     ELSE [category |-> Undefined, confidence |-> NoConfidence]

\* C24: in a 2xx response, candidate i of batch b carries the category and
\* confidence of entry i of batch b's own answer (empty and low when that
\* entry is absent or blank), whatever the other batches answered; entries
\* beyond the batch's size are applied to no candidate.
C24_EntriesStayInTheirBatch ==
  (request.state = "responded" /\ request.ok) =>
     \A b \in 1..Len(completions) :
       \A k \in BatchPositions(b) :
         LET e == EntryOfBatch(b, k - (b - 1) * BATCH_SIZE)
             got == request.categorizedExpenses[k]
         IN /\ got.category = (IF Falsy(e.category) THEN <<>> ELSE e.category)
            /\ got.confidence =
                 (IF e.confidence = NoConfidence \/ e.confidence = "" THEN "low"
                  ELSE e.confidence)

(***************************************************************************)
(* Properties of the review list (Spec)                                    *)
(***************************************************************************)
\* the review is open before and after the step
ReviewGoesOn == importModalOpen /\ importModalOpen'

\* C25: the indexes of the items under review are pairwise different and
\* stay as they are while the review is open; a step of the review changes
\* the category of the items of one index, which is one item, and nothing
\* else of the list, and leaves the store as it is.
C25_IndexStableAndSelective ==
  [][ /\ importModalOpen' =>
           \A i, j \in 1..Len(pendingExpenses') :
              i # j => pendingExpenses'[i].index # pendingExpenses'[j].index
      /\ ReviewGoesOn =>
           /\ storedExpenses' = storedExpenses
           /\ expenses' = expenses
           /\ Len(pendingExpenses') = Len(pendingExpenses)
           /\ \A i \in 1..Len(pendingExpenses) :
                pendingExpenses'[i] =
                  [pendingExpenses[i] EXCEPT !.category = pendingExpenses'[i].category]
           /\ Cardinality({i \in 1..Len(pendingExpenses) :
                             pendingExpenses'[i] # pendingExpenses[i]}) <= 1
    ]_vars

\* of two items under review the second was given a category by the user,
\* the first still has none
C25_Witness ==
  /\ importModalOpen
  /\ Len(pendingExpenses) = 2
  /\ pendingExpenses[1].index = 0
  /\ pendingExpenses[2].index = 1
  /\ pendingExpenses[1].category = Undefined
  /\ pendingExpenses[2].category = Bills
  /\ pendingExpenses[2].description = <<"T","a","x","i">>
  /\ storedExpenses = <<>>

(***************************************************************************)
(* Properties of the commit when every write succeeds (Spec)               *)
(***************************************************************************)
\* the step calls addImportedExpenses: it reports an import or changes the
\* stored array
CommitStep ==
  \/ storedExpenses' # storedExpenses
  \/ alertMsg'.kind = "imported" /\ alertMsg' # alertMsg

\* the drafts the committing step hands over: the reviewed list on confirm,
\* after a 2xx answer the pre-categorized rows followed by the rows the
\* categorizer labelled, else the rows of the file just read
Drafts ==
  IF importModalOpen THEN pendingExpenses
  ELSE IF hfs.pc = "fetching"
  THEN hfs.alreadyCategorized \o
       [k \in 1..Len(hfs.needsCategorization) |->
          [hfs.needsCategorization[k] EXCEPT
             !.category = request.categorizedExpenses[k].category]]
  ELSE parsed'.result.expenses

\* C26: a commit leaves the stored array as it was, followed by one record
\* per draft in the order of the drafts, each with the draft's date, amount,
\* category and description.
C26_CommitOnlyAppends ==
  [][ CommitStep =>
        /\ Len(storedExpenses') = Len(storedExpenses) + Len(Drafts)
        /\ \A k \in 1..Len(storedExpenses) : storedExpenses'[k] = storedExpenses[k]
        /\ \A i \in 1..Len(Drafts) :
             LET e == storedExpenses'[Len(storedExpenses) + i]
             IN /\ e.date = Drafts[i].date
                /\ e.amount = Drafts[i].amount
                /\ e.category = Drafts[i].category
                /\ e.description = Drafts[i].description
    ]_vars

\* a second import was committed behind the record of the first
C26_Witness ==
  /\ Len(storedExpenses) = 2
  /\ storedExpenses[1].description = <<"D","e","l","i">>
  /\ storedExpenses[1].category = Food
  /\ storedExpenses[2].description = <<"C","a","f","e">>
  /\ storedExpenses[2].category = Shopping
  /\ alertMsg = [kind |-> "imported", n |-> 1]
  /\ ~importModalOpen

(***************************************************************************)
(* The import pipeline with an oracle that also answers with a category    *)
(* name that is not among the categories it was given                      *)
(***************************************************************************)
Groceries == <<"G","r","o","c","e","r","i","e","s">>

\* the oracle labels every transaction of the batch Groceries, sure of it
OracleInvents ==
  /\ post.pc = "loop"
  /\ PostBatch(<<JsonArray([i \in 1..Len(Batch(request.expenses, post.batchIdx)) |->
                              [category |-> Groceries, confidence |-> "high"]])>>)

NextInventive == Next \/ OracleInvents

SpecInventive == Init /\ [][NextInventive]_vars

(***************************************************************************)
(* Properties of the committed categories (SpecInventive)                  *)
(***************************************************************************)
\* the import being committed got a 2xx answer from the categorizer
UsedCategorizer == request.state \in {"responded", "done"} /\ request.ok

\* C27: every record committed by an import that used the categorizer has
\* a category that is the name of an active category sent with the request,
\* or one the parser accepts in a pre-categorized row.
C27_CommittedCategoryWasOffered ==
  [][ (CommitStep /\ UsedCategorizer) =>
        \A k \in (Len(storedExpenses) + 1)..Len(storedExpenses') :
          \/ storedExpenses'[k].category \in NamesOf(request.categories)
          \/ storedExpenses'[k].category \in Range(validCategories)
    ]_vars

(***************************************************************************)
(* Properties of the closed review (Spec)                                  *)
(***************************************************************************)
\* C28: while the review is closed the pending list is empty and confirm
\* cannot run; the step that closes a review empties the list and writes
\* either nothing (cancel) or each pending row once (confirm).
C28_ClosedReviewHoldsNothing ==
  /\ [](~importModalOpen => (pendingExpenses = <<>> /\ ~ENABLED handleConfirmImport))
  /\ [][ (importModalOpen /\ ~importModalOpen') =>
           /\ pendingExpenses' = <<>>
           /\ \/ storedExpenses' = storedExpenses
              \/ Len(storedExpenses') = Len(storedExpenses) + Len(pendingExpenses)
     ]_vars

\* the reviewed row of <<Header3, RowCafe>> was confirmed as Bills and the
\* review is closed
C28_Witness ==
  /\ ~importModalOpen
  /\ pendingExpenses = <<>>
  /\ parsed.text = <<Header3, RowCafe>>
  /\ Len(storedExpenses) = 1
  /\ storedExpenses[1].category = Bills
  /\ storedExpenses[1].description = <<"C","a","f","e">>
  /\ alertMsg = [kind |-> "imported", n |-> 1]

(***************************************************************************)
(* Home: the expense form and the expense list.  Both stay mounted while   *)
(* an import waits for the categorizer or for the review.                  *)
(***************************************************************************)
\* rows of the import in progress that are still to be stored
RowsInFlight ==
  IF importModalOpen THEN Len(pendingExpenses)
  ELSE IF hfs.pc # "idle" THEN Len(hfs.file) - 1
  ELSE 0

\* page.tsx 34-37: storage.addExpense, then setExpenses(storage.getExpenses())
handleAddExpense(expense) ==
  /\ Len(storedExpenses) + RowsInFlight < MaxStore
  /\ storedExpenses' = SaveExpenses(storedExpenses, Append(storedExpenses, expense), quota)
  /\ expenses' = storedExpenses'
  /\ UNCHANGED <<storedCategories, apiKey, filters, filteredExpenses, quota, manager, download,
                 isImporting, importModalOpen, pendingExpenses, alertMsg, hfs, request, post,
                 completions, parsed>>

\* index of the element Array.prototype.findIndex returns, 0 when there is none
FindIndexById(exps, id) ==
  IF \E i \in 1..Len(exps) : exps[i].id = id
  THEN CHOOSE i \in 1..Len(exps) : exps[i].id = id /\ \A j \in 1..(i - 1) : exps[j].id # id
  ELSE 0

\* page.tsx 39-43: storage.updateExpense(expense.id, expense) for a listed expense
handleUpdateExpense(expense) ==
  /\ \E i \in 1..Len(expenses) : expenses[i].id = expense.id
  /\ LET index == FindIndexById(storedExpenses, expense.id)
     IN storedExpenses' =
          IF index = 0 THEN storedExpenses
          ELSE SaveExpenses(storedExpenses, [storedExpenses EXCEPT ![index] = expense], quota)
  /\ expenses' = storedExpenses'
  /\ UNCHANGED <<storedCategories, apiKey, filters, filteredExpenses, quota, manager, download,
                 isImporting, importModalOpen, pendingExpenses, alertMsg, hfs, request, post,
                 completions, parsed>>

HasOtherId(exps, id) == SelectSeq(exps, LAMBDA exp : exp.id # id)

\* page.tsx 45-48: storage.deleteExpense(id) for a listed expense
handleDeleteExpense(id) ==
  /\ \E i \in 1..Len(expenses) : expenses[i].id = id
  /\ storedExpenses' = SaveExpenses(storedExpenses, HasOtherId(storedExpenses, id), quota)
  /\ expenses' = storedExpenses'
  /\ UNCHANGED <<storedCategories, apiKey, filters, filteredExpenses, quota, manager, download,
                 isImporting, importModalOpen, pendingExpenses, alertMsg, hfs, request, post,
                 completions, parsed>>

\* what ExpenseForm submits: a new expense, and the edit of a listed one
FormExpenses ==
  { [id |-> id, date |-> Oct15, amount |-> [nan |-> FALSE, neg |-> FALSE, m |-> 20, s |-> 0],
     category |-> c, description |-> <<"G","i","f","t">>] : id \in IdSpace, c \in {Other, Bills} }

\* the import waits for the answer of /api/categorize or for the review
ImportSuspended == hfs.pc = "fetching" \/ importModalOpen

ManualFiles == { <<Header3, RowCafe>>, <<Header4, RowFood, RowCafe>> }

\* the pipeline, with the form and the list used while an import is suspended
NextManual ==
  \/ \E file \in ManualFiles : handleFileSelected(file)
  \/ FileLoaded
  \/ FetchFails
  \/ FetchResolved
  \/ PostReceive
  \/ OracleAnswers
  \/ OracleUnreachable
  \/ \E index \in 0..(MaxRows - 1), category \in ReviewChoices :
       handleCategorySelected(index, category)
  \/ handleConfirmImport
  \/ onClose
  \/ ImportSuspended /\ \E expense \in FormExpenses : handleAddExpense(expense)
  \/ ImportSuspended /\ \E expense \in FormExpenses : handleUpdateExpense(expense)
  \/ ImportSuspended /\ \E id \in IdSpace : handleDeleteExpense(id)

InitManual ==
  /\ storedExpenses \in {<<>>, <<StoredCafe>>}
  /\ storedCategories = NoCategoriesStored
  /\ apiKey \in BOOLEAN
  /\ expenses = storedExpenses
  /\ isImporting = FALSE
  /\ importModalOpen = FALSE
  /\ pendingExpenses = <<>>
  /\ alertMsg = NoAlert
  /\ hfs = HfsIdle
  /\ request = NoRequest
  /\ post = PostIdle
  /\ completions = <<>>
  /\ parsed = NothingParsed
  /\ quota = MaxStore
  /\ manager = ManagerClosed
  /\ download = NothingDownloaded
  /\ filters = NoFilters
  /\ filteredExpenses = NotRendered

SpecManual == InitManual /\ [][NextManual]_vars

(***************************************************************************)
(* Properties of edits made while an import is suspended (SpecManual)      *)
(***************************************************************************)
\* a step of the import: handleFileSelected moves on, or the review opens
\* or closes
PipelineStep == hfs' # hfs \/ importModalOpen' # importModalOpen

\* C29: whatever was added, updated or deleted while the import was
\* suspended, a step of the import keeps every record the store holds at
\* that moment, in place and unchanged; it writes nothing or appends the
\* import's records behind them, and the list then shows the whole store.
C29_CommitKeepsManualEdits ==
  [][ PipelineStep =>
        /\ Len(storedExpenses') >= Len(storedExpenses)
        /\ \A k \in 1..Len(storedExpenses) : storedExpenses'[k] = storedExpenses[k]
        /\ \/ storedExpenses' = storedExpenses
           \/ /\ Len(storedExpenses') = Len(storedExpenses) + Len(Drafts)
              /\ \A i \in 1..Len(Drafts) :
                   storedExpenses'[Len(storedExpenses) + i].description = Drafts[i].description
              /\ expenses' = storedExpenses'
    ]_vars

\* a Gift entered through the form while the import of <<Header3, RowCafe>>
\* was suspended is still there, in front of the imported Cafe
C29_Witness ==
  /\ ~importModalOpen
  /\ hfs = HfsIdle
  /\ parsed.text = <<Header3, RowCafe>>
  /\ alertMsg = [kind |-> "imported", n |-> 1]
  /\ Len(storedExpenses) = 2
  /\ storedExpenses[1].description = <<"G","i","f","t">>
  /\ storedExpenses[1].category = Other
  /\ storedExpenses[2].description = <<"C","a","f","e">>
  /\ expenses = storedExpenses

(***************************************************************************)
(* Properties of the reordering (SpecRegistry)                             *)
(***************************************************************************)
\* the drag gesture ends: handleDragEnd calls storage.reorderCategories
DragEnds == manager.draggedIndex # NoDrag /\ manager'.draggedIndex = NoDrag

\* the categories of a registry, each as its name and archived flag
NamedFlags(cats) ==
  {[name |-> cats[i].name, isArchived |-> cats[i].isArchived] : i \in 1..Len(cats)}

\* C30: reordering from the category manager keeps every category of the
\* registry, the archived ones too, with its name and archived flag.
C30_ReorderKeepsCategories ==
  [][ DragEnds =>
        NamedFlags(GetCategories(storedCategories')) =
          NamedFlags(GetCategories(storedCategories))
    ]_vars
====
